---------------------------- MODULE Spec2Model ----------------------------
(***************************************************************************)
(* Model of nkawa/cobotta_remote_proto: the two-process servo pipeline of  *)
(* src/denso_control.py (DensoControl.on_target in the main process,       *)
(* run_robot in the servo process) and the vendor-protocol wrapper of      *)
(* src/denso_robot.py (DensoRobot).                                        *)
(*                                                                         *)
(* Abstractions.  A pose is a tag <<sid, k>>: pose k of the series that    *)
(* was enqueued as the sid-th one (sid = 0 for poses that no series        *)
(* carries).  The shared array has NCoord coordinates, every coordinate    *)
(* holding the tag of the pose it was copied from.  A target is the single *)
(* number the planner compares with last_target.  The vendor controller is *)
(* an environment: each RPC either returns or raises, the raised error     *)
(* being drawn from ErrorInputs; faults are injected into the session      *)
(* open, slvMove, the recovery's Motor/slvChangeMode and the teardown      *)
(* commands, as the fault taxonomy of the specification places them.       *)
(***************************************************************************)
EXTENDS Integers, Sequences, FiniteSets, TLC

(* ------------------------------ bounds --------------------------------- *)

\* target messages the feeder delivers in one run
MaxMsgs == 3
\* poses of a PoseSeries
SeriesLen == 2
\* slvMove calls the controller rejects in one run
MaxFaults == 2
\* coordinates of a pose (6 in the program)
NCoord == 2
\* largest raw target coordinate of a message
MaxTarget == 1

\* the components of pos in a message range over -MaxCoord..MaxCoord
MaxCoord == 1
\* scale_mqtt_vs_real ranges over 1..MaxScale
MaxScale == 2

\* an interpolation factor is a multiple of 1/FactorDen
FactorDen == 2
\* the number of ramp samples of a factor table (the program's tables have
\* at least 12, and so at least one hold sample: never fewer than 2 here)
RampLen == 2

\* the wall clock of the replay feeder runs from 0 to MaxClock
MaxClock == 4
\* the recorded times of a replayed list are in 0..MaxRecTime
MaxRecTime == 2
\* a replayed list has up to MaxReplay messages
MaxReplay == 3

(* ------------------------- program constants --------------------------- *)

E_BUF_FULL == -2095049597
E_ORDER_DELAY == -2078272382
E_MOTOR_ON_WHILE_OFF_TRANSITION == -2091904914
E_ACCEL_LARGE_JOINT_1 == -2078261183
E_VEL_LARGE_JOINT_1 == -2078261167
E_NOT_IN_SLAVE_MODE == -2091908831
E_MOTOR_OFF == -2125459453
E_ACCEL_LARGE_JOINTS == { E_ACCEL_LARGE_JOINT_1 + j : j \in 0..7 }
E_VEL_LARGE_JOINTS == { E_VEL_LARGE_JOINT_1 + j : j \in 0..7 }
\* hresult that disable() swallows silently
E_DISABLE_IGNORED == -2147023170

\* slave sub-modes 0x001, 0x101, 0x201 and "left" 0x000
MODE_0 == 1
MODE_1 == 257
MODE_2 == 513
MODE_OFF == 0
ServoModes == {MODE_0, MODE_1, MODE_2}

\* max_trials of recover_automatic_servo
max_trials == 3

(* ------------------------------ values --------------------------------- *)

\* an exception: an ORiNException with its hresult, or any other exception
OrinError(hr) == [orin |-> TRUE, hresult |-> hr]
OtherError == [orin |-> FALSE, hresult |-> 0]
\* no exception is being handled
NoError == [orin |-> FALSE, hresult |-> 1]

\* the errors the environment raises: every class of the fault taxonomy,
\* one ORiN code outside every list of the program (a kinematic fault),
\* one ORiN code that is not negative, and one non-vendor exception
E_UNLISTED == E_BUF_FULL - 1
ErrorInputs ==
    { OrinError(hr) : hr \in { E_BUF_FULL, E_ORDER_DELAY,
                               E_MOTOR_ON_WHILE_OFF_TRANSITION,
                               E_ACCEL_LARGE_JOINT_1, E_ACCEL_LARGE_JOINT_1 + 7,
                               E_VEL_LARGE_JOINT_1, E_VEL_LARGE_JOINT_1 + 7,
                               E_NOT_IN_SLAVE_MODE, E_MOTOR_OFF,
                               E_UNLISTED, 0 - E_UNLISTED } }
    \cup { OtherError }

ZeroPose == <<0, 0>>
DefaultPose == <<0, 1>>
NoSeries == [sid |-> 0, len |-> 0]
PoseOfFirstSeries(series, k) == <<1, k>>
PoseFirst(series, k) == <<series.sid, 0>>
Pose(series, k) == <<series.sid, k>>

Pads == { [has |-> FALSE, b0 |-> FALSE, bA |-> FALSE] }
        \cup [has : {TRUE}, b0 : BOOLEAN, bA : BOOLEAN]
Messages == [hasPos : {TRUE}, x : 0..MaxTarget, pad : Pads]
            \cup { [hasPos |-> FALSE, x |-> 0,
                    pad |-> [has |-> FALSE, b0 |-> FALSE, bA |-> FALSE]] }
NoMessage == [hasPos |-> FALSE, x |-> 0,
              pad |-> [has |-> FALSE, b0 |-> FALSE, bA |-> FALSE]]

\* no function is being computed
NoCalc == [op |-> "none", arg |-> <<>>, out |-> <<>>]

VARIABLES
    \* configuration, fixed at start-up
    wait_for_robot, use_all_target, default_servo_mode,
    \* shared between the processes
    q_control_poses, arr_base_pose, v_base_pose,
    \* DensoControl
    is_reset, base_robot, base_mqtt, last_target, ppc, pmsg,
    \* run_robot
    pc, control_poses, i_pose, n_poses, state_pose, wi, err,
    \* DensoRobot
    hRob, slvChangeMode, i_trials,
    \* the controller
    ctrl_mode, ctrl_motor, cur_pos,
    \* history
    nmsgs, dropped, nput, nfaults, retried, emitted, cmds, teardown, deq, cause,
    \* the messages delivered so far (kept by SpecPlanner only)
    hist,
    \* the computation of the function specifications: [op, arg, out]
    calc

cfgVars == <<wait_for_robot, use_all_target, default_servo_mode>>
sharedVars == <<arr_base_pose, v_base_pose>>
plannerVars == <<is_reset, base_robot, base_mqtt, last_target, ppc, pmsg,
                 nmsgs, dropped, nput, hist>>
localVars == <<control_poses, i_pose, n_poses, state_pose, wi, err>>
driverVars == <<pc, localVars, nfaults, retried, emitted, deq, cause>>
robotVars == <<hRob, slvChangeMode, i_trials, cmds, teardown>>
ctrlVars == <<ctrl_mode, ctrl_motor, cur_pos>>
sessionVars == <<cfgVars, q_control_poses, sharedVars, plannerVars, driverVars,
                 robotVars, ctrlVars>>
vars == <<sessionVars, calc>>

(* ------------------------------- Init ---------------------------------- *)

\* the session before anything has run
InitSession ==
    /\ wait_for_robot \in BOOLEAN
    /\ use_all_target \in BOOLEAN
    /\ default_servo_mode \in ServoModes
    /\ q_control_poses = <<>>
    /\ arr_base_pose = [c \in 1..NCoord |-> ZeroPose]
    /\ v_base_pose = 0
    /\ is_reset = TRUE
    /\ base_robot = [c \in 1..NCoord |-> ZeroPose]
    /\ base_mqtt = 0
    /\ last_target = 0
    /\ ppc = "idle"
    /\ pmsg = NoMessage
    /\ pc = "start"
    /\ control_poses = NoSeries
    /\ i_pose = 0
    /\ n_poses = 0
    /\ state_pose = ZeroPose
    /\ err = NoError
    /\ wi = 0
    /\ hRob = 0
    /\ slvChangeMode = MODE_OFF
    /\ i_trials = 0
    /\ ctrl_mode = MODE_OFF
    /\ ctrl_motor = FALSE
    /\ cur_pos = ZeroPose
    /\ nmsgs = 0
    /\ dropped = FALSE
    /\ nput = 0
    /\ nfaults = 0
    /\ retried = NoError
    /\ emitted = <<>>
    /\ cmds = <<>>
    /\ teardown = <<>>
    /\ deq = <<>>
    /\ cause = "none"
    /\ hist = <<>>

Init ==
    /\ InitSession
    /\ calc = NoCalc


(* ------------------- DensoControl: the Control Planner ------------------ *)

\* on_target, lines 210-216 and 228-237: x = -js['pos']['x'] scaled by
\* scale_mqtt_vs_real (1 here); the rotations are set to 0 by the code
Target(js) == 0 - js.x

\* reset_pose
ResetPose ==
    /\ last_target' = 0
    /\ is_reset' = TRUE

\* on_target, lines 261-271: lock the two anchors (dropped remembers, until
\* then, that a message was discarded because the flag was not set)
ArmForgetsLastTarget(js) ==
    /\ dropped' = FALSE
    /\ base_robot' = arr_base_pose
    /\ base_mqtt' = Target(js)
    /\ last_target' = 0
    /\ is_reset' = FALSE
ArmStaysReset(js) ==
    /\ dropped' = FALSE
    /\ base_robot' = arr_base_pose
    /\ base_mqtt' = Target(js)
    /\ last_target' = Target(js)
    /\ is_reset' = TRUE
ArmUnlessBA(js) ==
    /\ dropped' = FALSE
    /\ base_robot' = arr_base_pose
    /\ base_mqtt' = Target(js)
    /\ last_target' = Target(js)
    /\ is_reset' = (js.pad.has /\ js.pad.bA)
Arm(js) ==
    /\ dropped' = FALSE
    /\ base_robot' = arr_base_pose
    /\ base_mqtt' = Target(js)
    /\ last_target' = Target(js)
    /\ is_reset' = FALSE

\* on_target, line 258 (and 253): may the anchors be locked now
FlagAlways == TRUE
Flag == v_base_pose = 1

\* on_target, line 349: q_control_poses.put(control_poses); the series is
\* planned from the shared pose read at line 308
PutSeries(len) ==
    /\ q_control_poses' = Append(q_control_poses, [sid |-> nput + 1, len |-> len])
    /\ nput' = nput + 1

\* on_target, lines 274-286: is the message looked at at all
PlansAlways(js) == TRUE
Plans(js) == use_all_target \/ last_target # Target(js)

\* on_target, line 301: 'pad' in js
HasPad(js) == js.pad.has

\* on_target, line 303: pd['b0'] != 1 fails, the button is held
HoldsNever(js) == FALSE
Holds(js) == js.pad.b0

\* on_target, line 350: pd['bA']
Resets(js) == js.pad.bA

\* on_target, lines 295-300: self.lx, ..., self.lzd are assigned before
\* the pad is looked at
LastTargetAfterUnlessHeld(js) ==
    IF HasPad(js) /\ Holds(js) THEN last_target ELSE Target(js)
LastTargetAfter(js) == Target(js)

\* on_target, lines 272-351: a message received when the anchors are locked
OnTargetArmed(js) ==
    IF Plans(js)
    THEN IF HasPad(js)
         THEN /\ IF ~Holds(js)
                 THEN PutSeries(SeriesLen)
                 ELSE UNCHANGED <<q_control_poses, nput>>
              /\ IF Resets(js)
                 THEN ResetPose
                 ELSE /\ last_target' = LastTargetAfter(js)
                      /\ UNCHANGED is_reset
              /\ UNCHANGED <<base_robot, base_mqtt>>
         ELSE /\ last_target' = LastTargetAfter(js)
              /\ UNCHANGED <<q_control_poses, nput, is_reset, base_robot, base_mqtt>>
    ELSE UNCHANGED <<q_control_poses, nput, is_reset, base_robot, base_mqtt,
                     last_target>>

\* on_target: one message, handled to the end or up to the busy wait of
\* lines 251-255
OnTarget(js) ==
    /\ ppc = "idle"
    /\ nmsgs < MaxMsgs
    /\ nmsgs' = nmsgs + 1
    /\ IF ~js.hasPos
       THEN UNCHANGED <<q_control_poses, nput, is_reset, base_robot, base_mqtt,
                        last_target, ppc, pmsg, dropped>>
       ELSE IF is_reset
            THEN IF Flag
                 THEN /\ Arm(js)
                      /\ UNCHANGED <<q_control_poses, nput, ppc, pmsg>>
                 ELSE /\ IF wait_for_robot
                         THEN ppc' = "wait" /\ pmsg' = js /\ UNCHANGED dropped
                         ELSE dropped' = TRUE /\ UNCHANGED <<ppc, pmsg>>
                      /\ UNCHANGED <<q_control_poses, nput, is_reset, base_robot,
                                     base_mqtt, last_target>>
            ELSE /\ OnTargetArmed(js)
                 /\ UNCHANGED <<ppc, pmsg, dropped>>
    /\ UNCHANGED <<cfgVars, calc, sharedVars, driverVars, robotVars, ctrlVars>>

\* on_target, lines 250-255: the busy wait of the wait-for-robot mode ends
WaitForRobot ==
    /\ ppc = "wait"
    /\ Flag
    /\ Arm(pmsg)
    /\ ppc' = "idle"
    /\ pmsg' = NoMessage
    /\ UNCHANGED <<q_control_poses, nput, nmsgs, hist>>
    /\ UNCHANGED <<cfgVars, calc, sharedVars, driverVars, robotVars, ctrlVars>>

\* the feeder delivers a message to on_target (the full-session
\* specification keeps no record of the messages)
Planner == (\E js \in Messages : OnTarget(js) /\ UNCHANGED hist) \/ WaitForRobot

\* the feeder delivers a message to on_target, and the message is recorded
Deliver(js) ==
    /\ OnTarget(js)
    /\ hist' = Append(hist, js)

(* ---------------------- run_robot: the Servo Driver --------------------- *)

\* run_robot is left: its local variables are gone
Exit(how, why) ==
    /\ pc' = how
    /\ cause' = why
    /\ control_poses' = NoSeries
    /\ i_pose' = 0
    /\ n_poses' = 0
    /\ state_pose' = ZeroPose
    /\ wi' = 0
    /\ err' = NoError

\* an exception that run_robot does not catch (it catches KeyboardInterrupt
\* only, lines 486-488)
Raise == Exit("raised", "exception")

\* run_robot, line 395: robot.start() (DensoRobot.start)
Start ==
    /\ pc = "start"
    /\ \/ /\ hRob' = 1
          /\ pc' = "enable"
          /\ UNCHANGED <<localVars, cause>>
       \/ /\ Raise
          /\ UNCHANGED hRob
    /\ UNCHANGED <<nfaults, retried, emitted, deq, slvChangeMode, i_trials, cmds, teardown>>
    /\ UNCHANGED <<cfgVars, calc, q_control_poses, sharedVars, plannerVars, ctrlVars>>

\* run_robot, line 396: robot.enable() (DensoRobot.enable)
Enable ==
    /\ pc = "enable"
    /\ \/ /\ ctrl_motor' = TRUE
          /\ pc' = "move_default"
          /\ UNCHANGED <<localVars, cause>>
       \/ /\ Raise
          /\ UNCHANGED ctrl_motor
    /\ UNCHANGED <<nfaults, retried, emitted, deq, robotVars, ctrl_mode, cur_pos>>
    /\ UNCHANGED <<cfgVars, calc, q_control_poses, sharedVars, plannerVars>>

\* run_robot, line 397: robot.move_default_pose_until_completion()
MoveDefault ==
    /\ pc = "move_default"
    /\ \/ /\ cur_pos' = DefaultPose
          /\ pc' = "enter"
          /\ UNCHANGED <<localVars, cause>>
       \/ /\ Raise
          /\ UNCHANGED cur_pos
    /\ UNCHANGED <<nfaults, retried, emitted, deq, robotVars, ctrl_mode, ctrl_motor>>
    /\ UNCHANGED <<cfgVars, calc, q_control_poses, sharedVars, plannerVars>>

\* run_robot, lines 398-400: robot.enter_servo_mode(), that is
\* DensoRobot.enter_servo_mode_by_mode(self._default_servo_mode); the
\* attribute is assigned (line 236) before the slvChangeMode command is sent
EnterServoMode ==
    /\ pc = "enter"
    /\ slvChangeMode' = default_servo_mode
    /\ \/ /\ ctrl_mode' = default_servo_mode
          /\ pc' = "poll"
          /\ i_pose' = 0
          /\ n_poses' = 0
          /\ UNCHANGED <<control_poses, state_pose, wi, err, cause>>
       \/ /\ Raise
          /\ UNCHANGED ctrl_mode
    /\ UNCHANGED <<nfaults, retried, emitted, deq, hRob, i_trials, cmds, teardown,
                   ctrl_motor, cur_pos>>
    /\ UNCHANGED <<cfgVars, calc, q_control_poses, sharedVars, plannerVars>>

\* run_robot, line 416 and lines 470-472: after the poll, either a pose of
\* the active series is to be commanded or the current pose is read
AfterPollNoIdlePublish(i, n) ==
    IF i <= n - 1
    THEN /\ pc' = "move"
         /\ UNCHANGED <<state_pose, wi>>
    ELSE /\ pc' = "poll"
         /\ UNCHANGED <<state_pose, wi>>
AfterPollOneMore(i, n) ==
    IF i <= n
    THEN /\ pc' = "move"
         /\ UNCHANGED <<state_pose, wi>>
    ELSE /\ pc' = "pub_idle"
         /\ state_pose' = cur_pos
         /\ wi' = 0
AfterPoll(i, n) ==
    IF i <= n - 1
    THEN /\ pc' = "move"
         /\ UNCHANGED <<state_pose, wi>>
    ELSE /\ pc' = "pub_idle"
         /\ state_pose' = cur_pos
         /\ wi' = 0

\* run_robot, lines 406-411: q_control_poses.get returned a series
PollGet ==
    /\ pc = "poll"
    /\ q_control_poses # <<>>
    /\ control_poses' = Head(q_control_poses)
    /\ q_control_poses' = Tail(q_control_poses)
    /\ n_poses' = Head(q_control_poses).len
    /\ i_pose' = 0
    /\ deq' = Append(deq, [sid |-> Head(q_control_poses).sid, newest |-> nput])
    /\ AfterPoll(i_pose', n_poses')
    /\ UNCHANGED <<err, nfaults, retried, emitted, cause>>
    /\ UNCHANGED <<cfgVars, calc, sharedVars, plannerVars, robotVars, ctrlVars>>

\* run_robot, lines 412-414: q_control_poses.get(timeout=1e-6) raised
\* queue.Empty: nothing was readable within the microsecond (a series that
\* was put an instant ago may still be on its way through the queue)
PollEmpty ==
    /\ pc = "poll"
    /\ AfterPoll(i_pose, n_poses)
    /\ UNCHANGED <<control_poses, i_pose, n_poses, err, nfaults, retried, emitted, deq,
                   cause>>
    /\ UNCHANGED <<cfgVars, calc, q_control_poses, sharedVars, plannerVars, robotVars,
                   ctrlVars>>

\* run_robot, lines 417-424 and 457-458: robot.move_pose_servo(control_pose)
\* returned (slvMove was accepted), then robot.get_current_pose(); the arm
\* may not have reached the commanded pose yet
MoveOk ==
    /\ pc = "move"
    /\ slvChangeMode \in ServoModes
    /\ ctrl_mode # MODE_OFF
    /\ emitted' = Append(emitted, Pose(control_poses, i_pose))
    /\ cur_pos' \in {cur_pos, Pose(control_poses, i_pose)}
    /\ state_pose' = cur_pos'
    /\ wi' = 0
    /\ pc' = "pub_ok"
    /\ retried' = NoError
    /\ UNCHANGED <<control_poses, i_pose, n_poses, err, nfaults, deq, cause>>
    /\ UNCHANGED <<cfgVars, calc, q_control_poses, sharedVars, plannerVars, robotVars,
                   ctrl_mode, ctrl_motor>>

\* DensoRobot._move_pose_servo_mode_0, lines 287-295: a rejected slvMove is
\* sent again when the error is the buffer overflow; the sub-modes 0x101 and
\* 0x201 (lines 299-305) send it once
RetriesSlvMoveNever(mode, e) == FALSE
RetriesSlvMoveAnyOrin(mode, e) == mode = MODE_0 /\ e.orin
RetriesSlvMove(mode, e) ==
    mode = MODE_0 /\ e.orin /\ e.hresult = E_BUF_FULL

\* DensoRobot.try_restart, lines 265-274: the codes the recovery is tried for
RecoverableCodesWithoutDelay ==
    E_VEL_LARGE_JOINTS \cup E_ACCEL_LARGE_JOINTS
        \cup {E_NOT_IN_SLAVE_MODE, E_MOTOR_OFF}
RecoverableCodes ==
    E_VEL_LARGE_JOINTS \cup E_ACCEL_LARGE_JOINTS
        \cup {E_NOT_IN_SLAVE_MODE, E_MOTOR_OFF, E_ORDER_DELAY}

\* DensoRobot.try_restart, lines 265-274: is the recovery attempted for e
IsRecoverableAnyCode(e) == e.orin /\ e.hresult < 0
IsRecoverable(e) ==
    /\ e.orin
    /\ e.hresult < 0
    /\ e.hresult \in RecoverableCodes

\* run_robot, lines 423-438 and 453-455: slvMove raised e.  In sub-mode
\* 0x001 the buffer overflow is retried inside move_pose_servo; any other
\* error reaches the except clause of the tick loop, is logged, and
\* try_restart either starts recover_automatic_servo or returns False and
\* the loop is left by break.  The controller drops out of slave mode on an
\* error (denso_robot.py, line 234).  retried remembers, while the same
\* pose is being sent again, the error of the rejection that is retried.
MoveFail(e) ==
    /\ pc = "move"
    /\ nfaults < MaxFaults
    /\ nfaults' = nfaults + 1
    /\ IF RetriesSlvMove(slvChangeMode, e)
       THEN /\ retried' = e
            /\ UNCHANGED <<pc, err, cause, cmds, ctrl_mode, ctrl_motor>>
       ELSE /\ err' = e
            /\ retried' = NoError
            /\ ctrl_mode' = IF e.orin /\ e.hresult = E_BUF_FULL
                            THEN ctrl_mode ELSE MODE_OFF
            /\ ctrl_motor' = IF e.orin /\ e.hresult = E_MOTOR_OFF
                             THEN FALSE ELSE ctrl_motor
            /\ IF IsRecoverable(e)
               THEN /\ pc' = "rec_reset"
                    /\ cmds' = <<>>
                    /\ UNCHANGED cause
               ELSE /\ pc' = "leave"
                    /\ cause' = "break"
                    /\ UNCHANGED cmds
    /\ UNCHANGED <<control_poses, i_pose, n_poses, state_pose, wi, emitted, deq,
                   hRob, slvChangeMode, i_trials, teardown, cur_pos>>
    /\ UNCHANGED <<cfgVars, calc, q_control_poses, sharedVars, plannerVars>>

(* ------------- DensoRobot.recover_automatic_servo, step by step --------- *)

Cmd(name, arg, ok) == [cmd |-> name, arg |-> arg, ok |-> ok]

\* line 393: ManualReset (the exception that try_restart was given is no
\* longer looked at)
RecReset ==
    /\ pc = "rec_reset"
    /\ \/ /\ cmds' = Append(cmds, Cmd("ManualReset", 0, TRUE))
          /\ pc' = "rec_clear"
          /\ err' = NoError
          /\ UNCHANGED <<control_poses, i_pose, n_poses, state_pose, wi, cause>>
       \/ /\ cmds' = Append(cmds, Cmd("ManualReset", 0, FALSE))
          /\ Raise
    /\ UNCHANGED <<nfaults, retried, emitted, deq, hRob, slvChangeMode, i_trials, teardown>>
    /\ UNCHANGED <<cfgVars, calc, q_control_poses, sharedVars, plannerVars, ctrlVars>>

\* lines 395 and 403-404: ClearError, then i_trials = 0
RecClear ==
    /\ pc = "rec_clear"
    /\ \/ /\ cmds' = Append(cmds, Cmd("ClearError", 0, TRUE))
          /\ pc' = "rec_motor"
          /\ UNCHANGED <<localVars, cause>>
       \/ /\ cmds' = Append(cmds, Cmd("ClearError", 0, FALSE))
          /\ Raise
    /\ i_trials' = 0
    /\ UNCHANGED <<nfaults, retried, emitted, deq, hRob, slvChangeMode, teardown>>
    /\ UNCHANGED <<cfgVars, calc, q_control_poses, sharedVars, plannerVars, ctrlVars>>

\* lines 415 and 436: the trials are used up
LastTrialNever(n) == FALSE
LastTrial(n) == n = max_trials

\* lines 406-411: one pass of the inner loop, Motor on accepted
RecMotorOk ==
    /\ pc = "rec_motor"
    /\ i_trials' = i_trials + 1
    /\ cmds' = Append(cmds, Cmd("Motor", 1, TRUE))
    /\ ctrl_motor' = TRUE
    /\ pc' = "rec_slv"
    /\ UNCHANGED <<localVars, nfaults, retried, emitted, deq, cause, hRob, slvChangeMode,
                   teardown>>
    /\ UNCHANGED <<cfgVars, calc, q_control_poses, sharedVars, plannerVars, ctrl_mode,
                   cur_pos>>

\* lines 406-425: one pass of the inner loop, Motor on raised e; the error
\* is cleared and Motor on is sent again only for the "turning off"
\* transient, and not after the last trial
RecMotorFail(e) ==
    /\ pc = "rec_motor"
    /\ i_trials' = i_trials + 1
    /\ IF e.orin /\ ~LastTrial(i_trials') /\ e.hresult = E_MOTOR_ON_WHILE_OFF_TRANSITION
       THEN /\ cmds' = cmds \o <<Cmd("Motor", 1, FALSE), Cmd("ClearError", 0, TRUE)>>
            /\ UNCHANGED <<pc, localVars, cause>>
       ELSE /\ cmds' = Append(cmds, Cmd("Motor", 1, FALSE))
            /\ Raise
    /\ UNCHANGED <<nfaults, retried, emitted, deq, hRob, slvChangeMode, teardown>>
    /\ UNCHANGED <<cfgVars, calc, q_control_poses, sharedVars, plannerVars, ctrlVars>>

\* line 431: the sub-mode the recovery asks for
RecoveryModeFixed == MODE_0
RecoveryMode == slvChangeMode

\* lines 428-432: slvChangeMode accepted; recover_automatic_servo returns
RecSlvOk ==
    /\ pc = "rec_slv"
    /\ cmds' = Append(cmds, Cmd("slvChangeMode", RecoveryMode, TRUE))
    /\ ctrl_mode' = RecoveryMode
    /\ pc' = "rec_sleep"
    /\ UNCHANGED <<localVars, nfaults, retried, emitted, deq, cause, hRob, slvChangeMode,
                   i_trials, teardown>>
    /\ UNCHANGED <<cfgVars, calc, q_control_poses, sharedVars, plannerVars, ctrl_motor,
                   cur_pos>>

\* lines 435-445: slvChangeMode raised e; the whole motor-on loop is run
\* again only for the motor-off error, and not after the last trial
RecSlvFail(e) ==
    /\ pc = "rec_slv"
    /\ IF e.orin /\ ~LastTrial(i_trials) /\ e.hresult = E_MOTOR_OFF
       THEN /\ cmds' = cmds \o <<Cmd("slvChangeMode", RecoveryMode, FALSE),
                                 Cmd("ClearError", 0, TRUE)>>
            /\ pc' = "rec_motor"
            /\ ctrl_motor' = FALSE
            /\ UNCHANGED <<localVars, cause>>
       ELSE /\ cmds' = Append(cmds, Cmd("slvChangeMode", RecoveryMode, FALSE))
            /\ Raise
            /\ UNCHANGED ctrl_motor
    /\ UNCHANGED <<nfaults, retried, emitted, deq, hRob, slvChangeMode, i_trials, teardown>>
    /\ UNCHANGED <<cfgVars, calc, q_control_poses, sharedVars, plannerVars, ctrl_mode,
                   cur_pos>>

\* try_restart, lines 276-277, and run_robot, lines 439-442: sleep one second,
\* return True, then robot.get_current_pose()
Restarted ==
    /\ pc = "rec_sleep"
    /\ pc' = "pub_restart"
    /\ state_pose' = cur_pos
    /\ wi' = 0
    /\ cmds' = <<>>
    /\ i_trials' = 0
    /\ UNCHANGED <<control_poses, i_pose, n_poses, err, nfaults, retried, emitted, deq,
                   cause, hRob, slvChangeMode, teardown>>
    /\ UNCHANGED <<cfgVars, calc, q_control_poses, sharedVars, plannerVars, ctrlVars>>

(* ------------------- run_robot: publishing the feedback ----------------- *)

PublishPcs == {"pub_ok", "pub_restart", "pub_idle"}

\* run_robot, lines 464-465 (the commanded pose is copied), 447-448 and
\* 477-478 (the pose read from the controller is copied)
PublishedPoseRead == state_pose
PublishedPose ==
    IF pc = "pub_ok" THEN Pose(control_poses, i_pose) ELSE state_pose

\* run_robot, lines 464-465, 447-448, 477-478: one coordinate is written
WriteCoord ==
    /\ pc \in PublishPcs
    /\ wi < NCoord
    /\ arr_base_pose' = [arr_base_pose EXCEPT ![wi + 1] = PublishedPose]
    /\ wi' = wi + 1
    /\ UNCHANGED <<pc, control_poses, i_pose, n_poses, state_pose, err, nfaults, retried,
                   emitted, deq, cause>>
    /\ UNCHANGED <<cfgVars, calc, q_control_poses, v_base_pose, plannerVars, robotVars,
                   ctrlVars>>

\* run_robot, lines 447-448, 464-465, 477-478: the for loop over the
\* coordinates has ended
AllWrittenAfterFirst == wi >= 1
AllWritten == wi = NCoord

\* run_robot, lines 450, 467, 480: the value stored in v_base_pose
ValidAfterPublishRestartClears(p) == IF p = "pub_restart" THEN 0 ELSE 1
ValidAfterPublish(p) == 1

\* run_robot, line 452: n_poses = 0 after a restart
NPosesAfterPublishKept(p, n) == n
NPosesAfterPublish(p, n) == IF p = "pub_restart" THEN 0 ELSE n

\* run_robot, lines 450-452, 467-468, 480: the flag is set and the index
\* moves on; back to the head of the loop
SetValid ==
    /\ pc \in PublishPcs
    /\ AllWritten
    /\ v_base_pose' = ValidAfterPublish(pc)
    /\ i_pose' = CASE pc = "pub_ok" -> i_pose + 1
                   [] pc = "pub_restart" -> 0
                   [] OTHER -> i_pose
    /\ n_poses' = NPosesAfterPublish(pc, n_poses)
    /\ pc' = "poll"
    /\ state_pose' = ZeroPose
    /\ wi' = 0
    /\ UNCHANGED <<control_poses, err, nfaults, retried, emitted, deq, cause>>
    /\ UNCHANGED <<cfgVars, calc, q_control_poses, arr_base_pose, plannerVars, robotVars,
                   ctrlVars>>

(* ------------------------------ teardown -------------------------------- *)

TCmd(by, name, ok) == [by |-> by, cmd |-> name, ok |-> ok]

\* DensoRobot.leave_servo_mode: the attribute is cleared, then slvChangeMode
\* 0x000 is sent
LeaveServoMode(by, ok) ==
    /\ slvChangeMode' = MODE_OFF
    /\ ctrl_mode' = IF ok THEN MODE_OFF ELSE ctrl_mode
    /\ teardown' = Append(teardown, TCmd(by, "slvChangeMode", ok))

\* DensoRobot.disable, line 183: Motor 0
MotorOff(by, ok) ==
    /\ ctrl_motor' = IF ok THEN FALSE ELSE ctrl_motor
    /\ teardown' = Append(teardown, TCmd(by, "Motor", ok))

\* the errors Motor 0 raises
DisableErrors == { OrinError(E_DISABLE_IGNORED), OrinError(E_UNLISTED), OtherError }

\* DensoRobot.disable, lines 184-191: an ORiNException raised by Motor 0 is
\* swallowed (code -2147023170) or only logged; any other exception leaves
\* disable
DisableSwallowsIgnoredOnly(e) == e.orin /\ e.hresult = E_DISABLE_IGNORED
DisableSwallows(e) == e.orin

\* run_robot, line 483: robot.leave_servo_mode() after the break
Leave ==
    /\ pc = "leave"
    /\ \E ok \in BOOLEAN :
          /\ LeaveServoMode("run_robot", ok)
          /\ IF ok
             THEN /\ pc' = "disable"
                  /\ err' = NoError
                  /\ UNCHANGED <<control_poses, i_pose, n_poses, state_pose, wi,
                                 cause>>
             ELSE Raise
    /\ UNCHANGED <<nfaults, retried, emitted, deq, hRob, i_trials, cmds, ctrl_motor, cur_pos>>
    /\ UNCHANGED <<cfgVars, calc, q_control_poses, sharedVars, plannerVars>>

\* run_robot, line 484: robot.disable(), the Motor 0 command accepted
DisableOk ==
    /\ pc = "disable"
    /\ MotorOff("run_robot", TRUE)
    /\ pc' = "givearm"
    /\ UNCHANGED <<localVars, nfaults, retried, emitted, deq, cause, hRob, slvChangeMode,
                   i_trials, cmds, ctrl_mode, cur_pos>>
    /\ UNCHANGED <<cfgVars, calc, q_control_poses, sharedVars, plannerVars>>

\* run_robot, line 484: robot.disable(), the Motor 0 command raised e
DisableFail(e) ==
    /\ pc = "disable"
    /\ MotorOff("run_robot", FALSE)
    /\ IF DisableSwallows(e)
       THEN pc' = "givearm" /\ UNCHANGED <<localVars, cause>>
       ELSE Raise
    /\ UNCHANGED <<nfaults, retried, emitted, deq, hRob, slvChangeMode, i_trials, cmds,
                   ctrl_mode, cur_pos>>
    /\ UNCHANGED <<cfgVars, calc, q_control_poses, sharedVars, plannerVars>>

\* DensoRobot.disable, line 192: Givearm; then run_robot returns
Givearm ==
    /\ pc = "givearm"
    /\ \E ok \in BOOLEAN :
          /\ teardown' = Append(teardown, TCmd("run_robot", "Givearm", ok))
          /\ IF ok THEN Exit("returned", cause) ELSE Raise
    /\ UNCHANGED <<nfaults, retried, emitted, deq, hRob, slvChangeMode, i_trials, cmds>>
    /\ UNCHANGED <<cfgVars, calc, q_control_poses, sharedVars, plannerVars, ctrlVars>>

\* the positions of the session open (lines 395-400)
OpenPcs == {"start", "enable", "move_default", "enter"}

\* the positions of the tick loop (lines 404-480)
LoopPcs == {"poll", "move", "rec_reset", "rec_clear", "rec_motor", "rec_slv",
            "rec_sleep", "pub_ok", "pub_restart", "pub_idle"}

\* the positions after the loop (lines 483-484)
TeardownPcs == {"leave", "disable", "givearm"}

\* run_robot, lines 486-488: a KeyboardInterrupt anywhere in the try block is
\* caught, logged, and the function returns
Interrupt ==
    /\ pc \in OpenPcs \cup LoopPcs \cup TeardownPcs
    /\ Exit("returned", "interrupt")
    /\ retried' = NoError
    /\ UNCHANGED <<nfaults, emitted, deq>>
    /\ UNCHANGED <<cfgVars, calc, q_control_poses, sharedVars, plannerVars, robotVars,
                   ctrlVars>>

\* the positions after run_robot
AfterPcs == {"returned", "raised"}

\* DensoRobot.__del__, lines 454-459, run when the robot object is released
\* after run_robot: leave_servo_mode and disable when the robot handle is
\* held, then stop().  An exception inside a destructor is printed and ends
\* it, so a failing leave_servo_mode skips disable and stop.
Del ==
    /\ pc \in AfterPcs
    /\ pc' = "ended"
    /\ cmds' = <<>>
    /\ i_trials' = 0
    /\ IF hRob # 0
       THEN \/ /\ slvChangeMode' = MODE_OFF
               /\ ctrl_mode' = MODE_OFF
               /\ ctrl_motor' = FALSE
               /\ teardown' = teardown \o <<TCmd("__del__", "slvChangeMode", TRUE),
                                            TCmd("__del__", "Motor", TRUE),
                                            TCmd("__del__", "Givearm", TRUE)>>
               /\ hRob' = 0
            \/ /\ slvChangeMode' = MODE_OFF
               /\ teardown' = Append(teardown, TCmd("__del__", "slvChangeMode", FALSE))
               /\ UNCHANGED <<hRob, ctrl_mode, ctrl_motor>>
       ELSE UNCHANGED <<hRob, slvChangeMode, teardown, ctrl_mode, ctrl_motor>>
    /\ UNCHANGED <<localVars, nfaults, retried, emitted, deq, cause, cur_pos>>
    /\ UNCHANGED <<cfgVars, calc, q_control_poses, sharedVars, plannerVars>>

\* the process ends and the destructor has not run: Python does not
\* guarantee __del__ for the objects alive when the interpreter exits, and a
\* further signal ends the process wherever it is
ProcessEnds ==
    /\ pc \in AfterPcs
    /\ pc' = "ended"
    /\ cmds' = <<>>
    /\ i_trials' = 0
    /\ UNCHANGED <<localVars, nfaults, retried, emitted, deq, cause, hRob, slvChangeMode,
                   teardown>>
    /\ UNCHANGED <<cfgVars, calc, q_control_poses, sharedVars, plannerVars, ctrlVars>>

(* ------------------------------ behaviour ------------------------------- *)

Driver ==
    \/ Start \/ Enable \/ MoveDefault \/ EnterServoMode
    \/ PollGet \/ PollEmpty
    \/ MoveOk
    \/ (\E e \in ErrorInputs : MoveFail(e))
    \/ RecReset \/ RecClear
    \/ RecMotorOk
    \/ (\E e \in ErrorInputs : RecMotorFail(e))
    \/ RecSlvOk
    \/ (\E e \in ErrorInputs : RecSlvFail(e))
    \/ Restarted
    \/ WriteCoord \/ SetValid
    \/ Leave \/ DisableOk
    \/ (\E e \in DisableErrors : DisableFail(e))
    \/ Givearm
    \/ Interrupt
    \/ Del \/ ProcessEnds

Next == Planner \/ Driver

Spec == Init /\ [][Next]_vars

(* ---------- the planner beside a driver whose commands are accepted ------ *)

\* the session of run_robot's defaults (default_servo_mode 0x201)
InitPlanner == Init /\ default_servo_mode = MODE_2

\* every message is recorded; the controller accepts every slvMove and
\* nobody interrupts the driver (a failed session open leaves the planner
\* alone, the valid flag never being set)
NextPlanner ==
    \/ (\E js \in Messages : Deliver(js))
    \/ WaitForRobot
    \/ Start \/ Enable \/ MoveDefault \/ EnterServoMode
    \/ PollGet \/ PollEmpty
    \/ MoveOk
    \/ WriteCoord \/ SetValid

SpecPlanner == InitPlanner /\ [][NextPlanner]_vars

\* run_robot is the target of a process of its own (__main__, lines 560-575)
\* and its loop never blocks: a step it can take is taken
DriverRun ==
    \/ Start \/ Enable \/ MoveDefault \/ EnterServoMode
    \/ PollGet \/ PollEmpty
    \/ MoveOk
    \/ WriteCoord \/ SetValid

SpecPlannerLive == SpecPlanner /\ WF_vars(DriverRun)

(* ------------- on_target: the normalisation of a message --------------- *)

\* Transform.__init__: one argument, "-x" is Axis(TRUE, "x")
Axis(neg, name) == [neg |-> neg, axis |-> name]

\* Transform.__init__, pos_strs and rot_strs with the offsets 0 and 3:
\* strs.index(t) + offset
AxisIndex(name) ==
    CASE name = "x" -> 1
      [] name = "y" -> 2
      [] name = "z" -> 3
      [] name = "xd" -> 4
      [] name = "yd" -> 5
      [] name = "zd" -> 6

\* Transform.__init__: self.permute and self.sign of the arguments
\* <<x, y, z, xd, yd, zd>>
permute(t) == [i \in 1..6 |-> AxisIndex(t[i].axis)]
sign(t) == [i \in 1..6 |-> IF t[i].neg THEN 0 - 1 ELSE 1]

\* Transform.__call__
TransformCall(t, v) == [i \in 1..6 |-> v[permute(t)[i]] * sign(t)[i]]

\* the transform of --disable_transform, Transform()
TransformIdentity ==
    <<Axis(FALSE, "x"), Axis(FALSE, "y"), Axis(FALSE, "z"),
      Axis(FALSE, "xd"), Axis(FALSE, "yd"), Axis(FALSE, "zd")>>

\* the transform the program configures otherwise
TransformDefault ==
    <<Axis(TRUE, "x"), Axis(FALSE, "z"), Axis(FALSE, "y"),
      Axis(TRUE, "xd"), Axis(FALSE, "zd"), Axis(FALSE, "yd")>>

\* angle.py, line 6, were the remainder to take the sign of d
norm_angle_360Truncated(d) == IF d >= 0 THEN d % 360 ELSE 0 - ((0 - d) % 360)
norm_angle_360(d) == d % 360
norm_angle_180NoShift(d) == d % 360
norm_angle_180(d) == ((d + 180) % 360) - 180

\* on_target, lines 233-235: the factor applied to the angles
AngleFactor(unit) == IF unit = "rad" THEN 180 ELSE 1

\* on_target, lines 228-240, applied to the tuple v
ScaleAndWrap(self, v) ==
    [i \in 1..6 |->
        IF i <= 3
        THEN v[i] * self.scale_mqtt_vs_real
        ELSE norm_angle_360(v[i] * AngleFactor(self.input_angle_unit))]

\* on_target, lines 210-240: the tuple [x, y, z, xd, yd, zd] of a message;
\* js['ori'] is not read and self.transform is not called
OnTargetTuple(self, js) ==
    ScaleAndWrap(self, <<0 - js.pos[1], js.pos[3], js.pos[2], 0, 0, 0>>)

\* the angles of ori in a message
OriAngles == {0, 90, 350}

Triples(S) == {<<a, b, c>> : a \in S, b \in S, c \in S}

\* a DensoControl as __main__ constructs it, and a message
NormaliseInputs ==
    [self : [transform : {TransformDefault, TransformIdentity},
             scale_mqtt_vs_real : 1..MaxScale,
             input_angle_unit : {"deg", "rad"}],
     js : [pos : Triples((0 - MaxCoord)..MaxCoord), ori : Triples(OriAngles)]]

InitNormalise ==
    /\ InitSession
    /\ default_servo_mode = MODE_2
    /\ calc \in {[op |-> "message", arg |-> a, out |-> <<>>] : a \in NormaliseInputs}

\* on_target computes the tuple of the message
NormaliseTarget ==
    /\ calc.op = "message"
    /\ calc' = [op |-> "on_target", arg |-> calc.arg,
                out |-> OnTargetTuple(calc.arg.self, calc.arg.js)]
    /\ UNCHANGED sessionVars

SpecNormalise == InitNormalise /\ [][NormaliseTarget]_vars

(* ------------------- Transform: construction and use -------------------- *)

\* Transform.__init__, lines 21-22: pos_strs followed by rot_strs
Strs == <<"x", "y", "z", "xd", "yd", "zd">>

\* the order of Python on the strings that name an axis
StrRank(name) ==
    CASE name = "x" -> 1
      [] name = "xd" -> 2
      [] name = "y" -> 3
      [] name = "yd" -> 4
      [] name = "z" -> 5
      [] name = "zd" -> 6

\* sorted() of the three names of one half
SortedNames(names) ==
    CHOOSE srt \in [1..3 -> {names[i] : i \in 1..3}] :
        /\ \A i \in 1..2 : StrRank(srt[i]) <= StrRank(srt[i + 1])
        /\ \E f \in [1..3 -> 1..3] :
              /\ \A i, j \in 1..3 : i # j => f[i] # f[j]
              /\ \A i \in 1..3 : srt[i] = names[f[i]]

\* Transform.__init__, lines 24 and 26: the assertion on the half that
\* starts after offset; strip("-") leaves the name of the axis
AssertHalfMembersOnly(t, offset) ==
    \A i \in 1..3 : t[i + offset].axis \in {Strs[j + offset] : j \in 1..3}
AssertHalf(t, offset) ==
    LET srt == SortedNames([i \in 1..3 |-> t[i + offset].axis])
    IN  \A i \in 1..3 : srt[i] = Strs[i + offset]

\* Transform.__init__: the object constructed, or the AssertionError
TransformInit(t) ==
    IF AssertHalf(t, 0) /\ AssertHalf(t, 3)
    THEN [raised |-> FALSE, permute |-> permute(t), sign |-> sign(t)]
    ELSE [raised |-> TRUE, permute |-> <<>>, sign |-> <<>>]

\* the arguments of the transform that undoes Transform(t)
InverseArgs(t) ==
    [j \in 1..6 |->
        LET i == CHOOSE i \in 1..6 : permute(t)[i] = j
        IN  Axis(t[i].neg, Strs[i])]

\* the arguments of a Transform: a name of an axis, with or without "-"
AxisArgs == {Axis(neg, Strs[j]) : neg \in BOOLEAN, j \in 1..6}

\* every choice of one half, the other half being a signed permutation of
\* its own axes taken from the two the program configures
TransformArgs ==
    {[i \in 1..6 |-> IF i <= 3 THEN p[i] ELSE r[i]] :
        p \in [1..3 -> AxisArgs], r \in {TransformIdentity, TransformDefault}}
    \cup
    {[i \in 1..6 |-> IF i <= 3 THEN p[i] ELSE r[i - 3]] :
        p \in {TransformIdentity, TransformDefault}, r \in [1..3 -> AxisArgs]}

\* the tuples a transform is applied to
TransformVectors == {<<1, 2, 3, 4, 5, 6>>, <<0 - 3, 0, 7, 90, 0 - 45, 350>>}

InitTransform ==
    /\ InitSession
    /\ default_servo_mode = MODE_2
    /\ calc \in {[op |-> "arguments", arg |-> [t |-> t, v |-> v], out |-> <<>>] :
                    t \in TransformArgs, v \in TransformVectors}

\* Transform(x=..., ..., zd=...)
TransformNew ==
    /\ calc.op = "arguments"
    /\ calc' = [calc EXCEPT !.op = "__init__", !.out = TransformInit(calc.arg.t)]
    /\ UNCHANGED sessionVars

\* transform(*v) of the object constructed
TransformApply ==
    /\ calc.op = "__init__"
    /\ ~calc.out.raised
    /\ calc' = [calc EXCEPT !.op = "__call__",
                            !.out = [raised |-> FALSE,
                                     permute |-> calc.out.permute,
                                     sign |-> calc.out.sign,
                                     y |-> TransformCall(calc.arg.t, calc.arg.v)]]
    /\ UNCHANGED sessionVars

\* the transform of the inverse arguments is constructed and applied to
\* the tuple the first one returned
TransformBack ==
    /\ calc.op = "__call__"
    /\ LET inv == InverseArgs(calc.arg.t)
       IN  calc' = [calc EXCEPT !.op = "inverse",
                                !.out = [raised |-> TransformInit(inv).raised,
                                         permute |-> calc.out.permute,
                                         sign |-> calc.out.sign,
                                         y |-> calc.out.y,
                                         z |-> TransformCall(inv, calc.out.y)]]
    /\ UNCHANGED sessionVars

NextTransform == TransformNew \/ TransformApply \/ TransformBack

SpecTransform == InitTransform /\ [][NextTransform]_vars

(* ---------------------- angle.py on whole degrees ----------------------- *)

MaxAngle == 720
MaxTurns == 2

\* an angle d and a number k of whole turns
AngleInputs == [d : (0 - MaxAngle)..MaxAngle, k : (0 - MaxTurns)..MaxTurns]

InitAngle ==
    /\ InitSession
    /\ default_servo_mode = MODE_2
    /\ calc \in {[op |-> "angle", arg |-> a, out |-> <<>>] : a \in AngleInputs}

\* norm_angle_360(d)
NormAngle360 ==
    /\ calc.op = "angle"
    /\ calc' = [calc EXCEPT !.op = "norm_angle_360",
                            !.out = <<norm_angle_360(calc.arg.d)>>]
    /\ UNCHANGED sessionVars

\* norm_angle_180(d) and norm_angle_180(d + 360 * k)
NormAngle180 ==
    /\ calc.op = "angle"
    /\ calc' = [calc EXCEPT !.op = "norm_angle_180",
                            !.out = <<norm_angle_180(calc.arg.d),
                                      norm_angle_180(calc.arg.d + 360 * calc.arg.k)>>]
    /\ UNCHANGED sessionVars

NextAngle == NormAngle360 \/ NormAngle180

SpecAngle == InitAngle /\ [][NextAngle]_vars

(* ----------------- on_target: the planning of a series ------------------ *)

\* angle.py: the last three components of a pose are angles
norm_pose_360(pose) ==
    [i \in 1..6 |-> IF i >= 4 THEN norm_angle_360(pose[i]) ELSE pose[i]]
norm_pose_180(pose) ==
    [i \in 1..6 |-> IF i >= 4 THEN norm_angle_180(pose[i]) ELSE pose[i]]

\* numpy's arithmetic on arrays
PoseSub(a, b) == [i \in 1..6 |-> a[i] - b[i]]
PoseAdd(a, b) == [i \in 1..6 |-> a[i] + b[i]]

\* diff_control_pose * factor, the factor f standing for f / FactorDen
PoseTimes(v, f) == [i \in 1..6 |-> (v[i] * f) \div FactorDen]

\* get_diff_factors, lines 139-144: int(n // 2) samples equal to 1 follow
\* the n ramp samples ys
get_diff_factors(ys) == ys \o [i \in 1..(Len(ys) \div 2) |-> FactorDen]

\* on_target, lines 304-347: the series planned for the tuple target
ControlPoses(self, target) ==
    LET target_pose_rel == norm_pose_360(PoseSub(target, self.base_mqtt))
        base_pose == self.arr_base_pose
        base_pose_rel == norm_pose_360(PoseSub(base_pose, self.base_robot))
        diff_control_pose == norm_pose_180(PoseSub(target_pose_rel, base_pose_rel))
    IN  [k \in 1..Len(self.diff_factors) |->
            norm_pose_360(PoseAdd(PoseAdd(self.base_robot, base_pose_rel),
                                  PoseTimes(diff_control_pose,
                                            self.diff_factors[k])))]

\* poses on the grid of the factors: two position triples and four angle
\* triples (a robot pose may have negative angles)
PosesIn ==
    {<<FactorDen * p[1], FactorDen * p[2], FactorDen * p[3],
       FactorDen * a[1], FactorDen * a[2], FactorDen * a[3]>> :
        p \in {<<0, 0, 0>>, <<1, 0 - 2, 3>>},
        a \in {<<0, 0, 0>>, <<5, 90, 170>>, <<175, 45, 0>>, <<0 - 85, 0 - 5, 120>>}}

\* the ramp samples, below 1
Ramps == [1..RampLen -> 0..(FactorDen - 1)]

\* an Armed DensoControl and the tuple of a message
PlanInputs ==
    [self : [base_robot : PosesIn, base_mqtt : PosesIn, arr_base_pose : PosesIn,
             diff_factors : {get_diff_factors(ys) : ys \in Ramps}],
     target : PosesIn]

InitPlan ==
    /\ InitSession
    /\ ~wait_for_robot
    /\ ~use_all_target
    /\ default_servo_mode = MODE_2
    /\ calc \in {[op |-> "target", arg |-> a, out |-> <<>>] : a \in PlanInputs}

\* on_target plans the series for the tuple
PlanSeries ==
    /\ calc.op = "target"
    /\ calc' = [op |-> "control_poses", arg |-> calc.arg,
                out |-> ControlPoses(calc.arg.self, calc.arg.target)]
    /\ UNCHANGED sessionVars

SpecPlan == InitPlan /\ [][PlanSeries]_vars

(* --------------- get_diff_factors and the choice of a table ------------- *)

\* a time or a speed as the fraction num / den (times in milliseconds,
\* speeds in units per millisecond)
Rat(n, d) == [num |-> n, den |-> d]
RatLeq(a, b) == a.num * b.den <= b.num * a.den
RatMax(a, b) == IF RatLeq(a, b) THEN b ELSE a
RatDiv(n, v) == Rat(n * v.den, v.num)

\* DensoControl.__init__: the intervals main leaves at their defaults
robot_interval == Rat(8, 1)
control_interval == Rat(50, 1)

\* the speed limits: the default of main (200 per second) and the default
\* of DensoControl.__init__ (50 per second)
SpeedLimits == {Rat(1, 5), Rat(1, 20)}

\* Python's a // b on floats: the floor of the quotient of the two binary
\* values; where the decimal quotient is a whole number q the rounding of
\* the operands decides between q and q - 1 (1.0 // 0.008 is 124.0)
FloorDiv(a, b) ==
    LET q == (a.num * b.den) \div (a.den * b.num)
    IN  IF (a.num * b.den) % (a.den * b.num) = 0 /\ q > 0
        THEN {q - 1, q}
        ELSE {q}

\* get_diff_factors, line 125: n = 2 * ti // ci
NumSamplesTwice(ti, ci) == FloorDiv(Rat(4 * ti.num, ti.den), ci)
NumSamples(ti, ci) == FloorDiv(Rat(2 * ti.num, ti.den), ci)

\* get_diff_factors, lines 126-136: the n ramp samples; every sample of
\* 1 - softplus(-xs) / softplus(4) is below 1, and the samples grow (the
\* values are put on the grid of the factors, softplus is not computed)
RampSamples(n) == [k \in 1..n |-> (k * (FactorDen - 1)) \div n]

\* get_diff_factors: the tables it can return for the intervals ti and ci
DiffFactorTables(ti, ci) ==
    {get_diff_factors(RampSamples(n)) : n \in NumSamples(ti, ci)}

\* np.max(np.abs(v[lo:hi]))
Abs(x) == IF x < 0 THEN 0 - x ELSE x
MaxAbs(v, lo, hi) ==
    CHOOSE m \in {Abs(v[i]) : i \in lo..hi} : \A i \in lo..hi : Abs(v[i]) <= m

\* on_target, lines 320-324: t_lim
TLim(self, diff_control_pose) ==
    RatMax(RatDiv(MaxAbs(diff_control_pose, 1, 3), self.v_lim_pos),
           RatDiv(MaxAbs(diff_control_pose, 4, 6), self.v_lim_rot))

\* on_target, line 329: the precomputed table is used
UsesDefaultNever(self, diff_control_pose) == FALSE
UsesDefault(self, diff_control_pose) ==
    RatLeq(TLim(self, diff_control_pose), self.control_interval)

\* on_target, lines 329-335: the tables the series may be planned with
SelectedTables(self, diff_control_pose) ==
    IF UsesDefault(self, diff_control_pose)
    THEN {self.diff_factors}
    ELSE DiffFactorTables(TLim(self, diff_control_pose), self.robot_interval)

\* the differences between target and robot: components of a
\* diff_control_pose
DiffsIn == {0, 3, 10, 0 - 11, 20, 100}

\* a DensoControl as __init__ leaves it (lines 182-199), and a
\* diff_control_pose
SelectInputs ==
    [self : [robot_interval : {robot_interval},
             control_interval : {control_interval},
             v_lim_pos : SpeedLimits, v_lim_rot : SpeedLimits,
             diff_factors : DiffFactorTables(control_interval, robot_interval)],
     diff_control_pose : {<<p, 0, 0 - 1, r, 1, 0>> : p \in DiffsIn, r \in DiffsIn}]

\* the intervals get_diff_factors is called with
IntervalsIn ==
    [ti : {Rat(t, 1) : t \in {8, 9, 12, 16, 50, 100, 500}},
     ci : {Rat(8, 1), Rat(4, 1)}]

InitFactors ==
    /\ InitSession
    /\ ~wait_for_robot
    /\ ~use_all_target
    /\ default_servo_mode = MODE_2
    /\ calc \in {[op |-> "diff_control_pose", arg |-> a, out |-> <<>>] :
                     a \in SelectInputs}
               \cup {[op |-> "intervals", arg |-> a, out |-> <<>>] :
                         a \in IntervalsIn}

\* on_target chooses the table for a diff_control_pose
SelectFactors ==
    /\ calc.op = "diff_control_pose"
    /\ \E t \in SelectedTables(calc.arg.self, calc.arg.diff_control_pose) :
          calc' = [op |-> "diff_factors", arg |-> calc.arg, out |-> t]
    /\ UNCHANGED sessionVars

\* get_diff_factors is called
GetDiffFactors ==
    /\ calc.op = "intervals"
    /\ \E t \in DiffFactorTables(calc.arg.ti, calc.arg.ci) :
          calc' = [op |-> "get_diff_factors", arg |-> calc.arg, out |-> t]
    /\ UNCHANGED sessionVars

NextFactors == SelectFactors \/ GetDiffFactors

SpecFactors == InitFactors /\ [][NextFactors]_vars

(* ------------------ ReplayMQTTFeeder._generate_by_diff ------------------ *)

\* the lists of recorded times js["time"] a feeder is constructed with
ReplayLists ==
    UNION {[1..n -> 0..MaxRecTime] : n \in 1..MaxReplay}

\* ReplayMQTTFeeder.__init__ and start: the thread is at the head of the
\* for loop; i is the index of js in self.jss, log the calls of the callback,
\* stop the position of a call of stop() and at_stop the number of calls of
\* the callback made when stop() set the event
ReplayStart(jss) ==
    [pcf |-> "for", i |-> 1, is_first |-> TRUE, j_prev |-> 0, t_prev |-> 0,
     now |-> 0, event |-> FALSE, log |-> <<>>, stop |-> "no", at_stop |-> 0]

\* _generate_by_diff, line 53: the wait for message j is over at the time t
ElapsedAlways(t, t_prev, j, j_prev) == TRUE
Elapsed(t, t_prev, j, j_prev) == t - t_prev >= j - j_prev

InitReplay ==
    /\ InitSession
    /\ ~wait_for_robot
    /\ ~use_all_target
    /\ default_servo_mode = MODE_2
    /\ calc \in {[op |-> "_generate_by_diff", arg |-> jss, out |-> ReplayStart(jss)] :
                     jss \in ReplayLists}

\* the wall clock advances
ClockTick ==
    /\ calc.op = "_generate_by_diff"
    /\ calc.out.now < MaxClock
    /\ calc' = [calc EXCEPT !.out.now = @ + 1]
    /\ UNCHANGED sessionVars

\* _generate_by_diff, lines 45-48: the first message is not waited for
ReplayFirst ==
    /\ calc.op = "_generate_by_diff"
    /\ calc.out.pcf = "for"
    /\ calc.out.is_first
    /\ calc' = [calc EXCEPT !.out.j_prev = calc.arg[calc.out.i],
                            !.out.t_prev = calc.out.now,
                            !.out.is_first = FALSE,
                            !.out.pcf = "callback"]
    /\ UNCHANGED sessionVars

\* _generate_by_diff, lines 50-56: the clock is read and the wait is over
ReplayWaitOver ==
    /\ calc.op = "_generate_by_diff"
    /\ calc.out.pcf = "for"
    /\ ~calc.out.is_first
    /\ Elapsed(calc.out.now, calc.out.t_prev, calc.arg[calc.out.i], calc.out.j_prev)
    /\ calc' = [calc EXCEPT !.out.j_prev = calc.arg[calc.out.i],
                            !.out.t_prev = calc.out.now,
                            !.out.pcf = "callback"]
    /\ UNCHANGED sessionVars

\* _generate_by_diff, line 58: self.event.is_set()
StopCheckedNever(out) == FALSE
StopChecked(out) == out.event

\* _generate_by_diff, lines 57-59: self.callback(js), then the event is
\* looked at; the loop ends with the list
ReplayCallback ==
    /\ calc.op = "_generate_by_diff"
    /\ calc.out.pcf = "callback"
    /\ calc' = [calc EXCEPT
                  !.out.log = Append(@, [k |-> calc.out.i,
                                         released |-> calc.out.t_prev,
                                         delivered |-> calc.out.now]),
                  !.out.i = @ + 1,
                  !.out.pcf = IF StopChecked(calc.out) \/ calc.out.i = Len(calc.arg)
                              THEN "done" ELSE "for"]
    /\ UNCHANGED sessionVars

\* ReplayMQTTFeeder.stop, line 36: self.event.set()
ReplayStop ==
    /\ calc.op = "_generate_by_diff"
    /\ calc.out.stop = "no"
    /\ calc' = [calc EXCEPT !.out.event = TRUE,
                            !.out.stop = "join",
                            !.out.at_stop = Len(calc.out.log)]
    /\ UNCHANGED sessionVars

\* ReplayMQTTFeeder.stop, line 37: self.thread.join() returns when the
\* thread has ended
ReplayStopReturns ==
    /\ calc.op = "_generate_by_diff"
    /\ calc.out.stop = "join"
    /\ calc.out.pcf = "done"
    /\ calc' = [calc EXCEPT !.out.stop = "returned"]
    /\ UNCHANGED sessionVars

NextReplay ==
    \/ ClockTick \/ ReplayFirst \/ ReplayWaitOver \/ ReplayCallback
    \/ ReplayStop \/ ReplayStopReturns

SpecReplay == InitReplay /\ [][NextReplay]_vars

(* ------------------------------- claims --------------------------------- *)

\* C1 (series preemption): when series A and then series B are enqueued
\* before the driver has consumed any of A, no pose of A is emitted: every
\* emitted pose belongs to a series that was the newest enqueued one at the
\* moment the driver dequeued it.
C1_NoStalePoseEmitted ==
    \A i \in 1..Len(emitted) :
        \A j \in 1..Len(deq) :
            deq[j].sid = emitted[i][1] => deq[j].newest = deq[j].sid

\* C2 (single-slot, newest-wins channel): the channel never holds more than
\* one pending series, and the driver never dequeues a series that is older
\* than another series already enqueued.
C2_SingleSlotNewestWins ==
    /\ Len(q_control_poses) <= 1
    /\ \A j \in 1..Len(deq) : deq[j].newest = deq[j].sid

\* C3 (valid is monotone): the valid flag never goes from true back to
\* false, recovery included, and it changes only when the driver finishes
\* publishing a pose.
C3_ValidMonotone ==
    [][ /\ (v_base_pose = 1 => v_base_pose' = 1)
        /\ (v_base_pose' # v_base_pose =>
               /\ v_base_pose = 0
               /\ pc \in PublishPcs
               /\ wi = NCoord
               /\ pc' = "poll") ]_vars

\* valid is true after a fault recovery has published its pose (only the
\* recovery leaves an emptied series behind: n_poses = 0 with a series held)
C3_Witness ==
    /\ v_base_pose = 1
    /\ pc = "poll"
    /\ control_poses # NoSeries
    /\ n_poses = 0

\* C4 (no planning before valid): while the valid flag is false no step
\* locks the anchors or enqueues a series; the planner stays in Reset with
\* nothing enqueued, in live mode by discarding the message.
C4_NoPlanningBeforeValid ==
    [][ v_base_pose = 0 =>
           /\ is_reset /\ is_reset'
           /\ q_control_poses = <<>> /\ q_control_poses' = <<>>
           /\ nput' = 0
           /\ base_robot' = base_robot
           /\ base_mqtt' = base_mqtt
           /\ (~wait_for_robot => ppc' = "idle") ]_vars

\* live mode: a message with a position was received and discarded while
\* valid was false
C4_Witness ==
    /\ ~wait_for_robot
    /\ v_base_pose = 0
    /\ dropped
    /\ is_reset
    /\ nput = 0
    /\ q_control_poses = <<>>

\* C5 (teardown on every exit path): whenever run_robot is left with the
\* robot handle held, whatever the cause, run_robot itself has sent the
\* leave-slave-mode command and then the Motor-off command; nothing is left
\* to the destructor.
C5_TeardownOnEveryExit ==
    (pc \in AfterPcs /\ hRob # 0) =>
        \E i, j \in 1..Len(teardown) :
            /\ i < j
            /\ teardown[i].by = "run_robot" /\ teardown[i].cmd = "slvChangeMode"
            /\ teardown[j].by = "run_robot" /\ teardown[j].cmd = "Motor"

\* C6 as stated (buffer overflow never ends the session, in any sub-mode):
\* the tick loop is never left because of a buffer-overflow error.
C6_BufFullNeverEndsSession ==
    ~(pc = "leave" /\ err = OrinError(E_BUF_FULL))

\* C6 as amended: in sub-mode 0x001 a buffer overflow of slvMove never
\* reaches the error handling of the tick loop (the command is sent again
\* and the loop goes on); in the sub-modes 0x101 and 0x201 it does, is not
\* recovered from, and the tick loop is left.
C6_BufFullRetriedInMode0Only ==
    /\ default_servo_mode = MODE_0 => err # OrinError(E_BUF_FULL)
    /\ err = OrinError(E_BUF_FULL) =>
           /\ default_servo_mode \in {MODE_1, MODE_2}
           /\ pc = "leave"
           /\ cause = "break"

\* sub-mode 0x001: slvMove was rejected and the driver is still about to
\* send the pose of the first series it dequeued, so the rejection was a
\* buffer overflow that is being retried (after any other rejection the
\* series is dropped or the loop is left)
C6_Witness ==
    /\ default_servo_mode = MODE_0
    /\ pc = "move"
    /\ nfaults > 0
    /\ Len(deq) = 1
    /\ Len(emitted) = 1

\* the codes C7 lists: velocity and acceleration too high (joints 1 to 8),
\* command generation delay, not in slave mode, motor off
C7Codes ==
    { E_VEL_LARGE_JOINT_1 + j : j \in 0..7 }
        \cup { E_ACCEL_LARGE_JOINT_1 + j : j \in 0..7 }
        \cup { E_ORDER_DELAY, E_NOT_IN_SLAVE_MODE, E_MOTOR_OFF }

\* C7 (recoverable faults do not end the session): a slvMove error with a
\* code of the list starts the recovery instead of leaving the loop, and
\* when the recovery has completed the driver publishes the pose and polls
\* the channel again (only an interrupt takes it elsewhere), the loop never
\* having been left.
C7_RecoveredSessionContinues ==
    /\ [](err.orin /\ err.hresult \in C7Codes => pc = "rec_reset" /\ cause = "none")
    /\ [](pc \in {"rec_sleep", "pub_restart"} => cause = "none")
    /\ [][ /\ pc = "rec_sleep" => pc' \in {"rec_sleep", "pub_restart", "returned"}
           /\ pc = "pub_restart" => pc' \in {"pub_restart", "poll", "returned"}
           /\ pc = "rec_sleep" /\ pc' = "returned" => cause' = "interrupt"
           /\ pc = "pub_restart" /\ pc' = "returned" => cause' = "interrupt"
      ]_vars

\* a pose of a later series has just been emitted after a recovery: in the
\* sub-modes 0x101 and 0x201 a rejected slvMove leads to the recovery or
\* out of the loop, and the recovery drops the series that was active
C7_Witness ==
    /\ default_servo_mode # MODE_0
    /\ nfaults > 0
    /\ pc = "pub_ok"
    /\ Len(deq) >= 2
    /\ emitted[Len(emitted)][1] = deq[Len(deq)].sid

\* the positions from which no pose is commanded any more
DonePcs == TeardownPcs \cup AfterPcs \cup {"ended"}

\* C8 (other errors end the session): a slvMove error that reaches the
\* error handling of the tick loop with a code outside the list (a
\* non-vendor exception, an unlisted or non-negative vendor code) makes the
\* loop exit; a recovery whose last trial fails raises out of the loop; and
\* once the loop is left it is never entered again and no pose is emitted.
C8_OtherErrorsEndSession ==
    /\ [](err # NoError /\ ~(err.orin /\ err.hresult \in C7Codes) =>
             pc = "leave" /\ cause = "break")
    /\ [][ /\ (pc = "rec_motor" /\ i_trials = max_trials - 1 /\ pc' = "rec_motor")
                 => UNCHANGED <<i_trials, cmds>>
           /\ (pc = "rec_slv" /\ i_trials = max_trials /\ cmds' # cmds)
                 => (pc' = "raised" \/ (pc' = "rec_sleep" /\ cmds'[Len(cmds')].ok))
           /\ pc \in DonePcs => pc' \in DonePcs /\ emitted' = emitted
           /\ pc' \in DonePcs /\ pc \notin DonePcs => emitted' = emitted
      ]_vars

\* the loop was left by break on an unlisted vendor code after a pose had
\* been emitted
C8_Witness ==
    /\ pc = "leave"
    /\ err = OrinError(E_UNLISTED)
    /\ Len(emitted) > 0

\* the Motor-on commands sent by the current recovery
MotorOnCount == Cardinality({ i \in 1..Len(cmds) : cmds[i].cmd = "Motor" })

\* C9 (bounded recovery): one recovery sends Motor-on at most 3 times and
\* at most 2 + 3 * 3 commands in all, so it cannot go on forever; it ends
\* in success (the slave mode command accepted) or by raising the error of
\* the command that failed last.
C9_RecoveryBounded ==
    /\ [](MotorOnCount <= max_trials /\ MotorOnCount = i_trials)
    /\ [](Len(cmds) <= 2 + 3 * max_trials)
    /\ [](pc = "rec_sleep" => cmds[Len(cmds)] = Cmd("slvChangeMode", slvChangeMode, TRUE))
    /\ [](pc = "raised" /\ cmds # <<>> => ~cmds[Len(cmds)].ok)
    /\ [][ (pc \in {"rec_reset", "rec_clear", "rec_motor", "rec_slv"} /\ pc' # pc) =>
              ( \/ pc' \in {"rec_clear", "rec_motor", "rec_slv", "rec_sleep"}
                \/ (pc' = "raised" /\ cause' = "exception")
                \/ (pc' = "returned" /\ cause' = "interrupt") ) ]_vars

\* the third Motor-on of a recovery has been sent
C9_Witness ==
    /\ pc \in {"rec_slv", "raised"}
    /\ MotorOnCount = max_trials

\* the commands of a recovery follow the order: ManualReset, ClearError,
\* then Motor-on trials, every slave mode command right after an accepted
\* Motor-on
RecoveryOrder(log) ==
    /\ Len(log) >= 1 => log[1].cmd = "ManualReset"
    /\ Len(log) >= 2 => log[1].ok /\ log[2].cmd = "ClearError"
    /\ Len(log) >= 3 => log[2].ok /\ log[3].cmd = "Motor"
    /\ \A i \in 3..Len(log) :
          /\ log[i].cmd # "ManualReset"
          /\ log[i].cmd = "slvChangeMode" =>
                log[i - 1] = Cmd("Motor", 1, TRUE)

\* C10 (recovery order and sub-mode): the recovery sends ManualReset,
\* ClearError, Motor-on and then the slave mode command, in this order; the
\* sub-mode it asks for is the one the session entered before the fault;
\* and after a successful recovery the recorded sub-mode and the
\* controller's sub-mode are that same sub-mode.
C10_RecoveryOrderAndMode ==
    /\ RecoveryOrder(cmds)
    /\ \A i \in 1..Len(cmds) :
          cmds[i].cmd = "slvChangeMode" => cmds[i].arg = default_servo_mode
    /\ pc \in {"rec_sleep", "pub_restart"} =>
          /\ slvChangeMode = default_servo_mode
          /\ ctrl_mode = default_servo_mode
          /\ ctrl_motor

\* a recovery in sub-mode 0x201 succeeded after the slave mode command had
\* been refused once
C10_Witness ==
    /\ pc = "rec_sleep"
    /\ default_servo_mode = MODE_2
    /\ Len(cmds) > 4
    /\ \E i \in 1..Len(cmds) : cmds[i].cmd = "slvChangeMode" /\ ~cmds[i].ok

\* C11 (retry in sub-mode 0x001): a rejected slvMove is sent again only for
\* the buffer overflow and only in sub-mode 0x001; the retry sends the same
\* pose of the same series; the pose that is emitted is the one that was
\* being sent; the poses of a series are emitted in order with none
\* skipped; and a rejection that is not retried reaches the tick loop at
\* once with its error.
C11_Mode0RetriesSamePose ==
    /\ [](retried # NoError =>
             /\ retried = OrinError(E_BUF_FULL)
             /\ slvChangeMode = MODE_0
             /\ pc = "move")
    /\ [](\A i \in 1..Len(emitted) :
             \/ emitted[i][2] = 0
             \/ (i > 1 /\ emitted[i - 1] = <<emitted[i][1], emitted[i][2] - 1>>))
    /\ [][ /\ (pc = "move" /\ pc' = "move" /\ nfaults' # nfaults) =>
                 (/\ retried' = OrinError(E_BUF_FULL)
                  /\ UNCHANGED <<control_poses, i_pose, n_poses, emitted, err>>)
           /\ (emitted' # emitted) =>
                 (emitted' = Append(emitted, Pose(control_poses, i_pose)))
           /\ (pc = "move" /\ nfaults' # nfaults /\ pc' # "move") =>
                 (/\ err' # NoError
                  /\ retried' = NoError
                  /\ (slvChangeMode = MODE_0 => err' # OrinError(E_BUF_FULL)))
      ]_vars

\* sub-mode 0x001: the second pose of a series is being sent again after a
\* buffer overflow, the first one having been emitted
C11_Witness ==
    /\ retried = OrinError(E_BUF_FULL)
    /\ pc = "move"
    /\ i_pose = 1
    /\ Len(emitted) = 1

(* ------------------- claims about the Control Planner ------------------- *)

\* the last message delivered has been handled to the end
Handled == hist # <<>> /\ ppc = "idle"

\* a message that asserts the reset button
AssertsBA(js) == js.hasPos /\ js.pad.has /\ js.pad.bA

\* an ordinary message: a position, and no reset button
Ordinary(js) == js.hasPos /\ ~(js.pad.has /\ js.pad.bA)

\* a message is delivered in this step
Delivered == Len(hist') = Len(hist) + 1

\* the message delivered in this step
NewMsg == hist'[Len(hist')]

\* the planner is in Reset because the last message asserted pad.bA (it was
\* neither discarded for want of a valid pose nor is it still waiting)
ResetByBA ==
    /\ Handled
    /\ AssertsBA(hist[Len(hist)])
    /\ is_reset
    /\ ~dropped
    /\ v_base_pose = 1

\* C12 (reset idempotence): a second consecutive message with pad.bA
\* asserted leaves the planner in Reset, and the ordinary message that
\* follows two such messages arms it with base_target taken from that
\* message and base_robot from the shared pose.
C12_ResetIdempotent ==
    [][ /\ (Delivered /\ ResetByBA /\ AssertsBA(NewMsg)) => is_reset'
        /\ (Delivered /\ ResetByBA /\ Len(hist) >= 2
              /\ AssertsBA(hist[Len(hist) - 1]) /\ Ordinary(NewMsg)) =>
                 (/\ ~is_reset'
                  /\ base_mqtt' = Target(NewMsg)
                  /\ base_robot' = arr_base_pose)
      ]_vars

\* the planner is Armed and a message is delivered to it in this step
ArmedDelivery == Delivered /\ ~is_reset /\ ppc = "idle"

\* C13 (bA always resets): in Armed every message with pad.bA asserted puts
\* the planner in Reset, whether or not its target differs from the last
\* one and whatever use_all_target is.
C13_BAAlwaysResets ==
    [][ (ArmedDelivery /\ AssertsBA(NewMsg)) => is_reset' ]_vars

\* the anchors have been locked at least once: the planner is Armed, or it
\* has enqueued a series (which only an Armed planner does)
AfterLockIn == ~is_reset \/ nput > 0

\* C14 (anchors change only at a lock-in): a step changes base_robot or
\* base_target only by taking the planner from Reset to Armed; while the
\* planner is Armed no message and no Servo Driver action changes them.
C14_AnchorsChangeOnlyAtLockIn ==
    [][ (base_robot' # base_robot \/ base_mqtt' # base_mqtt)
            => (is_reset /\ ~is_reset') ]_vars

\* C14 as stated: once locked, the anchors never change again
C14_AnchorsFrozenForSession ==
    [][ AfterLockIn => UNCHANGED <<base_robot, base_mqtt>> ]_vars

\* the anchors were locked by the first message, a message with pad.bA put
\* the planner back in Reset, and the third message locked them anew on
\* another target
C14_Witness ==
    /\ Len(hist) = 3
    /\ AssertsBA(hist[2])
    /\ nput > 0
    /\ ~is_reset
    /\ base_mqtt = Target(hist[3])
    /\ base_mqtt # Target(hist[1])

\* the message asserts pad.b0
AssertsB0(js) == js.hasPos /\ js.pad.has /\ js.pad.b0

\* one step of the Servo Driver's tick loop
DriverTick == PollGet \/ PollEmpty \/ MoveOk \/ WriteCoord \/ SetValid

\* the last message asserted pad.b0 and the planner, Armed, has handled it
HeldInArmed ==
    /\ Handled
    /\ AssertsB0(hist[Len(hist)])
    /\ ~dropped
    /\ v_base_pose = 1
    /\ Len(hist) >= 2

\* C15 (held button): a message with pad.b0 asserted that an Armed planner
\* receives enqueues no PoseSeries and leaves the Servo Driver and the
\* shared pose alone, and after it the Servo Driver's tick loop, which
\* writes the shared pose, can always take its next step.
C15_HeldButtonNeverEnqueues ==
    /\ [][ (ArmedDelivery /\ AssertsB0(NewMsg))
              => UNCHANGED <<q_control_poses, nput, sharedVars, driverVars>> ]_vars
    /\ [](HeldInArmed => ENABLED DriverTick)

\* the planner was armed by the first message, the second one changed the
\* target with pad.b0 asserted and was looked at, nothing has ever been
\* enqueued, and the Servo Driver is writing the shared pose
C15_Witness ==
    /\ Len(hist) = 2
    /\ HeldInArmed
    /\ ~is_reset
    /\ base_mqtt = Target(hist[1])
    /\ last_target = Target(hist[2])
    /\ last_target # base_mqtt
    /\ nput = 0
    /\ wi = 1

\* C16 (idempotent input): with use_all_target false, a message whose
\* target equals last_target, received by an Armed planner, enqueues nothing
\* and leaves last_target, the anchors and the Reset/Armed state unchanged.
C16_SameTargetIsNoOp ==
    [][ (ArmedDelivery /\ ~use_all_target /\ NewMsg.hasPos
            /\ Target(NewMsg) = last_target)
          => UNCHANGED <<q_control_poses, nput, last_target, base_robot,
                         base_mqtt, is_reset>> ]_vars

\* the first message armed the planner and the second one, with the pad at
\* rest, repeated its target: nothing was enqueued
C16_Witness ==
    /\ Len(hist) = 2
    /\ Handled
    /\ ~use_all_target
    /\ ~dropped
    /\ ~is_reset
    /\ hist[2].hasPos
    /\ hist[2].pad.has /\ ~hist[2].pad.b0 /\ ~hist[2].pad.bA
    /\ Target(hist[2]) = Target(hist[1])
    /\ base_mqtt = Target(hist[1])
    /\ nput = 0

\* every message delivered so far carries the same target and leaves the
\* pad at rest
StationaryRun ==
    \A i \in 1..Len(hist) :
        /\ hist[i].hasPos
        /\ hist[i].x = hist[1].x
        /\ ~hist[i].pad.b0 /\ ~hist[i].pad.bA

\* C17 (stationary scenario): with use_all_target false a run of identical
\* targets with the pad at rest enqueues no PoseSeries at all: the first
\* message locks the anchors without planning and the later ones are no-ops.
C17_StationaryEnqueuesNothing ==
    (~use_all_target /\ StationaryRun) => (nput = 0 /\ q_control_poses = <<>>)

\* C17 as stated: once the planner is armed and has handled a further
\* message of the run, exactly one PoseSeries has been enqueued
C17_StationaryEnqueuesOne ==
    (~use_all_target /\ StationaryRun /\ Handled /\ Len(hist) >= 3
        /\ ~is_reset /\ ~dropped /\ v_base_pose = 1) => nput = 1

\* three identical messages with the pad present and at rest have been
\* handled, the planner is Armed on their target
C17_Witness ==
    /\ ~use_all_target
    /\ StationaryRun
    /\ Handled
    /\ Len(hist) = 3
    /\ \A i \in 1..3 : hist[i].pad.has
    /\ hist[1].x = 1
    /\ ~is_reset
    /\ ~dropped
    /\ base_mqtt = Target(hist[1])
    /\ last_target = base_mqtt
    /\ nput = 0

\* C18 (pad optional): an Armed planner that receives a changed target
\* without a pad field plans for it and enqueues a PoseSeries.
C18_NoPadStillPlans ==
    [][ (ArmedDelivery /\ NewMsg.hasPos /\ ~NewMsg.pad.has
            /\ Target(NewMsg) # last_target)
          => (nput' = nput + 1 /\ Len(q_control_poses') = Len(q_control_poses) + 1)
      ]_vars

(* ------------------ claims about the planner's arithmetic --------------- *)

\* the tuple the configured Transform gives for the message's pos and ori,
\* then scaled and angle-wrapped as on_target does
ConfiguredTuple(self, js) ==
    ScaleAndWrap(self, TransformCall(self.transform,
                                     <<js.pos[1], js.pos[2], js.pos[3],
                                       js.ori[1], js.ori[2], js.ori[3]>>))

\* C19 (normalisation applies the configured transform): the tuple the
\* planner plans with is the configured Transform applied to the message's
\* pos and ori, then scaled and angle-wrapped.
C19_TupleIsConfiguredTransform ==
    calc.op = "on_target" =>
        calc.out = ConfiguredTuple(calc.arg.self, calc.arg.js)

\* the angle in [0, 360) that differs from a by a multiple of 360
wrap360(a) == CHOOSE r \in 0..359 : (a - r) % 360 = 0

\* the angle in [-180, 180) that differs from a by a multiple of 360
wrap180(a) == CHOOSE r \in -180..179 : (a - r) % 360 = 0

WrapPose360(p) == [i \in 1..6 |-> IF i >= 4 THEN wrap360(p[i]) ELSE p[i]]
WrapPose180(p) == [i \in 1..6 |-> IF i >= 4 THEN wrap180(p[i]) ELSE p[i]]

\* robot_rel and diff of the planning computed in calc
RobotRel ==
    WrapPose360(PoseSub(calc.arg.self.arr_base_pose, calc.arg.self.base_robot))
Diff ==
    WrapPose180(PoseSub(WrapPose360(PoseSub(calc.arg.target,
                                            calc.arg.self.base_mqtt)),
                        RobotRel))

\* C20 (series arithmetic): pose k of a planned series is
\* wrap360(base_robot + robot_rel + diff * factor[k]); the last pose is the
\* robot pose read from the shared array plus the full diff, which is the
\* target carried into the robot's frame, with its angles in [0, 360).
C20_SeriesArithmetic ==
    calc.op = "control_poses" =>
        LET self == calc.arg.self
            n == Len(calc.out)
        IN  /\ n = Len(self.diff_factors)
            /\ \A k \in 1..n :
                  calc.out[k] =
                      WrapPose360(PoseAdd(PoseAdd(self.base_robot, RobotRel),
                                          PoseTimes(Diff, self.diff_factors[k])))
            /\ calc.out[n] = WrapPose360(PoseAdd(self.arr_base_pose, Diff))
            /\ calc.out[n] =
                   WrapPose360(PoseAdd(self.base_robot,
                                       PoseSub(calc.arg.target, self.base_mqtt)))
            /\ \A i \in 4..6 : calc.out[n][i] \in 0..359

\* a series has been planned whose diff wraps to a negative angle and whose
\* ramp holds a sample strictly between 0 and 1
C20_Witness ==
    /\ calc.op = "control_poses"
    /\ Len(calc.out) = RampLen + (RampLen \div 2)
    /\ \E i \in 4..6 : Diff[i] < 0
    /\ \E i \in 1..3 : Diff[i] # 0
    /\ \E k \in 1..RampLen : calc.arg.self.diff_factors[k] \in 1..(FactorDen - 1)
    /\ calc.out[Len(calc.out)] # calc.arg.self.arr_base_pose

(* --------------------- claims about the factor tables ------------------- *)

\* the quotient a / b rounded down and rounded up
Floor(a, b) == a \div b
Ceil(a, b) == (a + b - 1) \div b

\* T_req of the diff_control_pose in calc
TReq ==
    LET d == calc.arg.diff_control_pose
        self == calc.arg.self
    IN  RatMax(RatDiv(MaxAbs(d, 1, 3), self.v_lim_pos),
               RatDiv(MaxAbs(d, 4, 6), self.v_lim_rot))

\* C21 (time-stretch selection): when T_req <= control_interval the series
\* is planned with the precomputed table, otherwise with a table generated
\* by get_diff_factors for T = T_req and the robot interval; its length is
\* that of a table for T = max(control_interval, T_req).
C21_TimeStretchSelection ==
    calc.op = "diff_factors" =>
        LET self == calc.arg.self
        IN  /\ IF RatLeq(TReq, self.control_interval)
               THEN calc.out = self.diff_factors
               ELSE calc.out \in DiffFactorTables(TReq, self.robot_interval)
            /\ Len(calc.out) \in
                  {Len(t) : t \in DiffFactorTables(
                                     RatMax(self.control_interval, TReq),
                                     self.robot_interval)}

\* a table has been generated for a T_req above the control interval, and
\* it is longer than the precomputed one
C21_Witness ==
    /\ calc.op = "diff_factors"
    /\ ~RatLeq(TReq, calc.arg.self.control_interval)
    /\ Len(calc.out) > Len(calc.arg.self.diff_factors)
    /\ calc.out[Len(calc.out)] = FactorDen

\* C22 (interpolator scaling): for T >= h the factor table has
\* n = floor(2T / h) ramp samples followed by ceil(n / 2) samples equal to 1,
\* so its length is floor(2T / h) + ceil(floor(2T / h) / 2).
C22_TableLengthCeil ==
    (calc.op = "get_diff_factors" /\ RatLeq(calc.arg.ci, calc.arg.ti)) =>
        LET T == calc.arg.ti
            h == calc.arg.ci
            n == Floor(2 * T.num * h.den, T.den * h.num)
        IN  /\ Len(calc.out) = n + Ceil(n, 2)
            /\ \A k \in (n + 1)..Len(calc.out) : calc.out[k] = FactorDen

\* the interval the table of the series in calc is generated for
TableInterval == RatMax(calc.arg.self.control_interval, TReq)

\* C23 (series length): a planned series is nonempty and has at most
\* 2T / h + T / h poses, the ramp and a dwell tail of half its length, where
\* T = max(control_interval, T_req) and h is the robot interval.
C23_SeriesLengthBound ==
    calc.op = "diff_factors" =>
        LET T == TableInterval
            h == calc.arg.self.robot_interval
        IN  /\ Len(calc.out) >= 1
            /\ Len(calc.out) * T.den * h.num <= 3 * T.num * h.den

\* C23 as stated: at most 2T / h + T / (2h) poses, T the configured control
\* interval
C23_SeriesLengthConfigured ==
    calc.op = "diff_factors" =>
        LET T == calc.arg.self.control_interval
            h == calc.arg.self.robot_interval
        IN  /\ Len(calc.out) >= 1
            /\ 2 * Len(calc.out) * T.den * h.num <= 5 * T.num * h.den

\* a series planned with a stretched table, longer than the bound for the
\* configured control interval
C23_Witness ==
    /\ calc.op = "diff_factors"
    /\ ~RatLeq(TReq, calc.arg.self.control_interval)
    /\ Len(calc.out) >= 1
    /\ 2 * Len(calc.out) * calc.arg.self.robot_interval.num
          > 5 * calc.arg.self.control_interval.num

(* ----------------------- claims about the tick loop --------------------- *)

\* the pose commanded in the present tick
CommandedPose == Pose(control_poses, i_pose)

\* C24 (tick-loop feedback): on a tick in which a pose of the active series
\* was commanded successfully, the value written to the shared pose is that
\* commanded pose, not the pose read from the controller in the tick.
C24_FeedbackIsCommandedPose ==
    pc = "pub_ok" =>
        /\ emitted # <<>>
        /\ CommandedPose = emitted[Len(emitted)]
        /\ \A c \in 1..wi : arr_base_pose[c] = CommandedPose

\* C24 as stated: the value written is the pose read from the controller
C24_FeedbackIsCurrentPose ==
    pc = "pub_ok" => \A c \in 1..wi : arr_base_pose[c] = state_pose

\* a pose was commanded, the arm has not reached it, and the whole shared
\* pose has been written
C24_Witness ==
    /\ pc = "pub_ok"
    /\ wi = NCoord
    /\ state_pose # CommandedPose
    /\ \A c \in 1..NCoord : arr_base_pose[c] = CommandedPose

\* C25 (feedback without a series): once the Servo Driver is in its tick
\* loop the valid flag eventually becomes 1, whether or not a series is ever
\* enqueued; a tick without an active series commands nothing, publishes the
\* pose read from the controller and sets the flag.
C25_ValidEventually ==
    /\ (pc = "poll") ~> (v_base_pose = 1)
    /\ [][ pc = "pub_idle" =>
             /\ UNCHANGED <<emitted, cmds>>
             /\ PublishedPose = state_pose
             /\ (pc' # "pub_idle" => (v_base_pose' = 1 /\ pc' = "poll"))
         ]_vars

\* the flag is set although no series was ever enqueued and no pose commanded
C25_Witness ==
    /\ v_base_pose = 1
    /\ nput = 0
    /\ emitted = <<>>
    /\ \A c \in 1..NCoord : arr_base_pose[c] = DefaultPose

\* the series are dequeued in the order of their enqueueing
DequeuedInOrder == \A j \in 1..Len(deq) : deq[j].sid = j

\* the poses commanded from a series are its poses 0, 1, 2, ... one after
\* the other: pose k > 0 follows pose k - 1 of the same series directly, and
\* pose 0 of a series is commanded once, after its dequeueing
ContiguousPrefixes ==
    \A i \in 1..Len(emitted) :
        /\ emitted[i][1] \in 1..Len(deq)
        /\ emitted[i][2] \in 0..(SeriesLen - 1)
        /\ IF emitted[i][2] > 0
           THEN i > 1 /\ emitted[i - 1] = <<emitted[i][1], emitted[i][2] - 1>>
           ELSE \A h \in 1..(i - 1) : emitted[h][1] # emitted[i][1]

\* C26 (ordering): series are dequeued in the order they were enqueued, a
\* tick dequeues at most one series (from the poll) and commands at most one
\* pose (from the move that follows the poll), and the poses commanded from
\* a series are a contiguous prefix of it in index order, none skipped or
\* repeated.
C26_Ordering ==
    /\ [](DequeuedInOrder /\ ContiguousPrefixes)
    /\ [][ /\ (deq' # deq =>
                 (pc = "poll" /\ pc' # "poll" /\ Len(deq') = Len(deq) + 1))
           /\ (emitted' # emitted =>
                 (/\ pc = "move" /\ pc' = "pub_ok"
                  /\ emitted' = Append(emitted, Pose(control_poses, i_pose))))
           /\ (pc' = "move" => pc \in {"poll", "move"})
         ]_vars

\* two series were dequeued and commanded to their last pose
C26_Witness ==
    /\ Len(deq) = 2
    /\ Len(emitted) = 2 * SeriesLen
    /\ emitted[SeriesLen] = <<1, SeriesLen - 1>>
    /\ emitted[2 * SeriesLen] = <<2, SeriesLen - 1>>

\* C27 (preemption at dequeue): once a new series is dequeued no pose of an
\* earlier dequeued series is commanded: a commanded pose belongs to the
\* series dequeued last, the commanded poses never go back to an earlier
\* series, and a change of series starts at index 0.
C27_NewSeriesPreempts ==
    /\ pc = "pub_ok" =>
          (/\ deq # <<>>
           /\ emitted[Len(emitted)][1] = deq[Len(deq)].sid
           /\ control_poses.sid = deq[Len(deq)].sid)
    /\ \A i \in 1..Len(emitted) : \A j \in i..Len(emitted) :
          emitted[i][1] <= emitted[j][1]
    /\ \A i \in 2..Len(emitted) :
          emitted[i][1] # emitted[i - 1][1] => emitted[i][2] = 0

\* the first series was preempted after its first pose: its tail was never
\* commanded, the second series was commanded from its index 0
C27_Witness ==
    /\ Len(deq) = 2
    /\ Len(emitted) >= 2
    /\ emitted[1] = <<1, 0>>
    /\ emitted[2] = <<2, 0>>
    /\ SeriesLen >= 2

\* the Servo Driver process has ended after a fault of the controller
DriverStoppedOnFault == pc = "ended" /\ cause \notin {"none", "interrupt"}

\* C28 (planner terminates with its consumer): after the Servo Driver has
\* stopped on a fatal fault the planner accepts no target and enqueues no
\* further PoseSeries.
C28_PlannerStopsWithDriver ==
    [][ DriverStoppedOnFault => UNCHANGED <<nmsgs, nput, q_control_poses>> ]_vars

(* ------------------------- claims about teardown ------------------------ *)

ReplayLog == calc.out.log
RecTime(k) == calc.arg[k]

\* C30 (replay order and pacing): the recorded messages reach the callback
\* in list order, each at most once; the first is not waited for; message i
\* is not delivered before time[i] - time[i-1] has elapsed on the clock
\* since message i - 1 was released.
C30_ReplayOrderAndPacing ==
    calc.op = "_generate_by_diff" =>
        /\ Len(ReplayLog) <= Len(calc.arg)
        /\ \A n \in 1..Len(ReplayLog) :
              /\ ReplayLog[n].k = n
              /\ ReplayLog[n].delivered >= ReplayLog[n].released
              /\ n > 1 =>
                    /\ ReplayLog[n].released - ReplayLog[n - 1].released
                          >= RecTime(n) - RecTime(n - 1)
                    /\ ReplayLog[n].delivered - ReplayLog[n - 1].released
                          >= RecTime(n) - RecTime(n - 1)
        /\ (calc.out.pcf = "for" /\ calc.out.i = 1) => ENABLED ReplayFirst

\* a whole list was replayed, and its last message was held back until its
\* recorded distance to the one before had elapsed
C30_Witness ==
    /\ calc.op = "_generate_by_diff"
    /\ calc.out.pcf = "done"
    /\ Len(ReplayLog) = Len(calc.arg)
    /\ Len(ReplayLog) >= 2
    /\ RecTime(Len(ReplayLog)) - RecTime(Len(ReplayLog) - 1) = MaxRecTime
    /\ ReplayLog[Len(ReplayLog)].released
          = ReplayLog[Len(ReplayLog) - 1].released + MaxRecTime

\* C31 (cooperative stop): after stop() has set the event the feeder calls
\* the callback at most once more, the messages delivered are a prefix of
\* the list, and stop() returns only when the feeder thread has ended.
C31_StopIsCooperative ==
    calc.op = "_generate_by_diff" =>
        /\ calc.out.event => Len(ReplayLog) <= calc.out.at_stop + 1
        /\ \A n \in 1..Len(ReplayLog) : ReplayLog[n].k = n
        /\ Len(ReplayLog) <= Len(calc.arg)
        /\ calc.out.stop = "returned" => calc.out.pcf = "done"
        /\ (calc.out.event /\ Len(ReplayLog) = calc.out.at_stop + 1)
              => calc.out.pcf = "done"

\* stop() was called while messages were left, one further message was
\* delivered, the rest of the list was not, and stop() has returned
C31_Witness ==
    /\ calc.op = "_generate_by_diff"
    /\ calc.out.stop = "returned"
    /\ calc.out.at_stop = 1
    /\ Len(ReplayLog) = 2
    /\ Len(calc.arg) = 3

\* the names of one half, without their signs, are the half's own three
\* axes, each once
SignedPermutationOfHalf(t, offset) ==
    /\ \A i \in 1..3 : \E j \in 1..3 : t[i + offset].axis = Strs[j + offset]
    /\ \A i, j \in 1..3 : i # j => t[i + offset].axis # t[j + offset].axis

\* C32 (transform): the construction succeeds exactly when each half of
\* the arguments is a signed permutation of its own axes; the transform
\* returns out[i] = sign[i] * in[permute[i]], a positional component from a
\* positional one and a rotational from a rotational one; and the inverse
\* signed permutation, itself a valid transform, gives the tuple back.
C32_SignedPermutation ==
    /\ calc.op = "__init__" =>
          (~calc.out.raised <=>
              SignedPermutationOfHalf(calc.arg.t, 0) /\ SignedPermutationOfHalf(calc.arg.t, 3))
    /\ calc.op \in {"__call__", "inverse"} =>
          \A i \in 1..6 :
              /\ calc.out.y[i] = calc.out.sign[i] * calc.arg.v[calc.out.permute[i]]
              /\ calc.out.sign[i] \in {1, 0 - 1}
              /\ (i <= 3) <=> (calc.out.permute[i] <= 3)
              /\ calc.out.permute[i] \in 1..6
    /\ calc.op = "inverse" => ~calc.out.raised /\ calc.out.z = calc.arg.v

\* a transform that permutes and negates was applied and undone
C32_Witness ==
    /\ calc.op = "inverse"
    /\ calc.arg.t[1] = Axis(TRUE, "z")
    /\ calc.arg.t[2] = Axis(FALSE, "x")
    /\ calc.out.y # calc.arg.v
    /\ calc.out.z = calc.arg.v

\* a and b differ by a whole number of turns
Congruent360(a, b) == \E m \in (0 - MaxTurns - 4)..(MaxTurns + 4) : a - b = 360 * m

\* C33 (angle normalisation): for every whole angle d, negative ones
\* included, norm_angle_360(d) lies in [0, 360), norm_angle_180(d) in
\* [-180, 180), both are congruent to d modulo 360, and norm_angle_180 is
\* the same on d and on d + 360 k.
C33_AngleRanges ==
    /\ calc.op = "norm_angle_360" =>
          /\ 0 <= calc.out[1] /\ calc.out[1] < 360
          /\ Congruent360(calc.out[1], calc.arg.d)
    /\ calc.op = "norm_angle_180" =>
          /\ 0 - 180 <= calc.out[1] /\ calc.out[1] < 180
          /\ Congruent360(calc.out[1], calc.arg.d)
          /\ calc.out[2] = calc.out[1]

\* a negative angle more than a turn away was normalised to [-180, 180),
\* and so was the angle two turns before it
C33_Witness ==
    /\ calc.op = "norm_angle_180"
    /\ calc.arg.d = 0 - 190
    /\ calc.arg.k = 0 - 2
    /\ calc.out = <<170, 170>>

(* ---------------------- claims about the shared pose -------------------- *)

\* C34 (no torn pose): the pose the planner read from the shared array as
\* base_robot on arming is a pose the driver published in one single tick:
\* all its coordinates come from the same published pose, never from the
\* poses of two different ticks.
C34_AnchorIsOnePublishedPose ==
    ~is_reset => \A c, d \in 1..NCoord : base_robot[c] = base_robot[d]

\* C35 (valid after the coordinates): the driver stores 1 in v_base_pose
\* only when it has written every coordinate of the pose it publishes, so
\* while v_base_pose = 1 no coordinate of the shared array is the zero it
\* was created with: each has been written by the driver.
C35_ValidMeansWritten ==
    /\ v_base_pose = 1 => \A c \in 1..NCoord : arr_base_pose[c] # ZeroPose
    /\ ENABLED SetValid =>
          /\ wi = NCoord
          /\ \A c \in 1..NCoord : arr_base_pose[c] = PublishedPose
    /\ (v_base_pose = 0 /\ pc \in PublishPcs) =>
          \A c \in 1..NCoord : (arr_base_pose[c] # ZeroPose) <=> (c <= wi)

\* the planner found v_base_pose = 1 and armed on the pose of the first
\* publication
C35_Witness ==
    /\ v_base_pose = 1
    /\ ~is_reset
    /\ nmsgs = 1
    /\ base_robot = [c \in 1..NCoord |-> DefaultPose]

(* ---------------- claims about the index into the series ---------------- *)

\* the driver holds a series it was interrupted in: control_poses is still
\* the series, n_poses is 0
Interrupted == control_poses # NoSeries /\ n_poses = 0

\* C36 (the interrupted series is discarded): the tick of a successful
\* restart publishes the robot's current pose with valid = 1 and leaves
\* i_pose = n_poses = 0; from then on no pose is commanded, hence neither
\* the pose whose slvMove failed nor a later one of that series, until a
\* series is dequeued, and a pose commanded belongs to the series dequeued
\* last.
C36_InterruptedSeriesDiscarded ==
    /\ [][ (pc = "pub_restart" /\ pc' = "poll") =>
              (/\ wi = NCoord
               /\ i_pose' = 0 /\ n_poses' = 0
               /\ v_base_pose' = 1
               /\ arr_base_pose' = [c \in 1..NCoord |-> cur_pos]
               /\ Interrupted') ]_vars
    /\ [][ Interrupted =>
              (/\ emitted' = emitted
               /\ (~Interrupted' /\ pc' \in LoopPcs) =>
                     (deq' # deq /\ control_poses' # control_poses)) ]_vars
    /\ [][ emitted' # emitted =>
              (/\ ~Interrupted
               /\ i_pose < n_poses
               /\ control_poses.sid = deq[Len(deq)].sid
               /\ emitted' = Append(emitted, Pose(control_poses, i_pose))) ]_vars
    /\ [][ deq' # deq =>
              \A j \in 1..Len(deq) : deq[j].sid < deq'[Len(deq')].sid ]_vars

\* the second pose of the first series failed and the restart succeeded:
\* the robot's pose is published, the first series is dropped with one pose
\* commanded, and the second series waits in the queue
C36_Witness ==
    /\ Interrupted
    /\ pc = "poll"
    /\ control_poses.sid = 1
    /\ emitted = <<Pose(control_poses, 0)>>
    /\ v_base_pose = 1
    /\ arr_base_pose = [c \in 1..NCoord |-> cur_pos]
    /\ Len(q_control_poses) = 1

\* C37 (bounds of the index): in every state 0 <= i_pose <= n_poses and
\* n_poses is at most the length of the series held; in the tick loop no
\* series is held only as long as none has been dequeued; where a pose is
\* commanded, or a commanded pose is published, i_pose < n_poses and a
\* series has been dequeued, so control_poses[i_pose] exists.
C37_IndexWithinSeries ==
    /\ 0 <= i_pose /\ i_pose <= n_poses
    /\ n_poses <= control_poses.len
    /\ (pc \in LoopPcs /\ control_poses = NoSeries) => (n_poses = 0 /\ deq = <<>>)
    /\ (pc \in {"move", "pub_ok"} \/ ENABLED MoveOk) =>
          /\ i_pose < n_poses
          /\ control_poses # NoSeries
          /\ deq # <<>>
          /\ \E k \in 0..(control_poses.len - 1) : k = i_pose

\* a series has been commanded to its last pose: the index has reached the
\* length and the driver is back at the head of the loop
C37_Witness ==
    /\ pc = "poll"
    /\ n_poses = SeriesLen
    /\ i_pose = n_poses
    /\ Len(emitted) = SeriesLen

(* -------------------- claims about the gated messages ------------------- *)

\* the messages from the i-th on carry the target of the message delivered
\* in this step
RepeatedSince(i) ==
    /\ NewMsg.hasPos
    /\ \A j \in i..Len(hist) : hist[j].hasPos /\ hist[j].x = NewMsg.x

\* C38 (last_target and the held button): an Armed planner that receives a
\* message whose target differs from last_target stores the target in
\* last_target, with pad.b0 asserted as well as without (pad.bA aside, which
\* clears it); hence, with use_all_target false, a message that repeats
\* the target of a message that asserted pad.b0, nothing else having come
\* between, enqueues no PoseSeries.
C38_HeldTargetIsRemembered ==
    /\ [][ (ArmedDelivery /\ NewMsg.hasPos /\ Target(NewMsg) # last_target
              /\ ~AssertsBA(NewMsg))
            => last_target' = Target(NewMsg) ]_vars
    /\ [][ (ArmedDelivery /\ AssertsB0(NewMsg) /\ Target(NewMsg) # last_target)
            => (nput' = nput /\ q_control_poses' = q_control_poses) ]_vars
    /\ [][ (Delivered /\ ~use_all_target
              /\ \E i \in 1..Len(hist) : AssertsB0(hist[i]) /\ RepeatedSince(i))
            => (nput' = nput /\ q_control_poses' = q_control_poses) ]_vars

\* the planner was armed, a new target came with pad.b0 asserted, the same
\* target came again with the pad at rest: nothing was ever enqueued
C38_Witness ==
    /\ Len(hist) = 3
    /\ Handled
    /\ ~use_all_target
    /\ ~is_reset
    /\ base_mqtt = Target(hist[1])
    /\ AssertsB0(hist[2]) /\ ~hist[2].pad.bA
    /\ Target(hist[2]) # Target(hist[1])
    /\ hist[3].hasPos /\ hist[3].x = hist[2].x
    /\ hist[3].pad.has /\ ~hist[3].pad.b0 /\ ~hist[3].pad.bA
    /\ last_target = Target(hist[2])
    /\ nput = 0

\* the message that is handled in this step: the one delivered, or the one
\* that waited for the robot
ArmingMsg == IF Delivered THEN NewMsg ELSE pmsg

\* C39 (the arming message): the message that takes the planner from Reset
\* to Armed sets base_robot, base_target and last_target and enqueues
\* nothing, whatever its pad says: with a valid pose a message with a
\* position arms the planner even with pad.bA or pad.b0 asserted. A
\* PoseSeries is enqueued only by a message delivered to a planner that an
\* earlier message armed, so not before the second message.
C39_ArmingMessageOnlyAnchors ==
    /\ [][ (is_reset /\ ~is_reset') =>
              (/\ nput' = nput /\ q_control_poses' = q_control_poses
               /\ base_robot' = arr_base_pose
               /\ base_mqtt' = Target(ArmingMsg)
               /\ last_target' = Target(ArmingMsg)) ]_vars
    /\ [][ (Delivered /\ is_reset /\ v_base_pose = 1 /\ NewMsg.hasPos) =>
              (~is_reset' /\ nput' = nput) ]_vars
    /\ [][ nput' # nput => (Delivered /\ ~is_reset /\ Len(hist) >= 1) ]_vars
    /\ [](nput > 0 => Len(hist) >= 2)

\* a first message with pad.bA and pad.b0 asserted has armed the planner
\* and enqueued nothing
C39_Witness ==
    /\ Len(hist) = 1
    /\ Handled
    /\ AssertsBA(hist[1]) /\ AssertsB0(hist[1])
    /\ ~is_reset
    /\ base_mqtt = Target(hist[1])
    /\ last_target = Target(hist[1])
    /\ nput = 0

(* ---------------------- claims about the busy wait ---------------------- *)

\* C40 (the wait for the robot ends): in wait-for-robot mode no message is
\* discarded for want of a valid pose, and a call of on_target that waits
\* for the robot can still return when the driver process has ended: the
\* busy wait of the planner does not outlast the driver.
C40_WaitEndsWithoutDriver ==
    /\ wait_for_robot => ~dropped
    /\ (ppc = "wait" /\ pc = "ended") => ENABLED WaitForRobot

=============================================================================
